---- MODULE Spec2Model ----
(***************************************************************************)
(* Verification model of the poker-assistant recognition core:             *)
(*   - TextRecognitionPipeline (ocr/text_recognition.py): lazy OCR reader, *)
(*     per-zone processing, EMA / stable-value temporal filter;            *)
(*   - CardRecognitionPipeline (ocr/card_recognition.py): street machine;  *)
(*   - SnapshotBus / HybridProvider (launch_overlay.py): single-slot       *)
(*     mailbox, producer worker, HUD consumer;                             *)
(*   - RecognitionIntegration (ocr/recognition_integration.py): worker     *)
(*     thread life cycle, frame queue, last result / update time.          *)
(*                                                                         *)
(* Amounts are fixed-point integers in units of 1/Scale, Scale a power of  *)
(* 20, so that alpha = 0.15 = 3/20 is applied without rounding for as many *)
(* EMA updates as one run performs.  Python None is the empty sequence     *)
(* and an optional value v is <<v>>.                                       *)
(***************************************************************************)
EXTENDS Integers, Sequences, FiniteSets, TLC

VARIABLES
    \* ---- TextRecognitionPipeline ----
    ocr_installed,   \* environment: can `import easyocr` / Reader(...) succeed
    reader,          \* self.reader: "None" or "loaded"
    text_zones,      \* zone names the layout configures, in rois order
    ema_values,      \* self.ema_values
    stable_values,   \* self.stable_values
    text_in,         \* OCR outcome per zone of the frame last handed in
    text_out,        \* outcome of the last recognize_text call
    text_calls,      \* number of recognize_text calls so far
    \* ---- CardRecognitionPipeline ----
    game_state,      \* self.game_state
    last_cards_hash, \* self.last_cards_hash (the hashed tuple itself)
    cards_in,        \* per-slot results of the frame last handed in
    frames,          \* the RecognitionFrames returned so far, oldest first
    heap,            \* the list and dict objects the returned frames point to
    frame_refs,      \* per returned frame, the objects its fields point to
    card_raised,     \* exception the last recognize_cards call ended with
    card_calls,      \* number of recognize_cards calls so far
    \* ---- which entry point runs: launch_overlay or launch_live_preview ----
    program,
    \* ---- SnapshotBus / HybridProvider / HUD poll (launch_overlay.py) ----
    bus_snap,        \* SnapshotBus._snap
    bus_ts,          \* SnapshotBus._ts
    bus_lock,        \* holder of SnapshotBus._lock: "free", "worker", "hud"
    mono_clock,      \* last value time.monotonic() returned
    pub_log,         \* history: (snap, ts) of every completed publish
    hp_use_real,     \* HybridProvider._use_real_recognition
    hp_ready,        \* HybridProvider._ready
    hp_stop,         \* HybridProvider._stop
    hp_last_state,   \* HybridProvider._last_state
    hp_last_policy,  \* HybridProvider._last_policy
    w_pc,            \* position of the _worker thread
    w_phase,         \* which of the cycle's two publishes is under way
    w_img,           \* result of this cycle's capture_window
    w_state,         \* _worker's local `state`
    w_snap,          \* _publish_snapshot's local `snap`
    sim_counter,     \* _worker's local sim_counter
    hud_pc,          \* position of the HUD's _poll_provider
    hud_got,         \* what SnapshotBus.get last returned
    hud_view,        \* what the HUD last rendered
    \* ---- RecognitionIntegration and its UI thread (launch_live_preview) ----
    ri_init_ok,      \* environment: can CardRecognitionPipeline be constructed
    ri_pipeline,     \* self.pipeline: "None" or "ready"
    ri_running,      \* self.is_running
    ri_enabled,      \* self.recognition_enabled
    ri_thread,       \* self.recognition_thread: 0 (None) or a thread number
    ri_started,      \* number of worker threads created so far
    ri_wpc,          \* position of each worker thread
    ri_wframe,       \* each worker's local frame_data / recognition_frame
    ri_queue,        \* self.recognition_queue
    ri_last_recognition,   \* self.last_recognition
    ri_last_update_time,   \* self.last_update_time
    wall_clock,      \* last value time.time() returned
    ri_submitted,    \* number of frames handed to process_frame so far
    ri_update_log,   \* history: (frame, time) written by each worker update
    ri_raise_log,    \* history: (frame, frames submitted so far) of each raise
    ui_pc,           \* position of the UI thread
    ui_seen,         \* (frame, update time) the last staleness check read
    \* ---- one call of a stateless helper of the recognisers ----
    fn_name,         \* the function called last ("none" before any call)
    fn_in,           \* its arguments
    fn_out,          \* what it returned
    \* ---- TableCalibrator (table_calibrator.py) ----
    cal_card_zones,  \* self.card_zones: card name -> list of CardZone
    cal_keys,        \* the card names self.card_zones has as keys
    cal_zones,       \* self.zones: the list being edited
    cal_current_card,\* self.current_card
    cal_zone_type,   \* self.current_zone_type
    cal_saved,       \* the card_zones section of the YAML file
    cal_ops,         \* number of operator actions so far
    \* ---- the poll timer of a HUD window (Tk's after queue) ----
    tk_hud,          \* the HUD class whose window is open ("none" before)
    tk_after,        \* number of pending after() calls of _poll_provider
    tk_closed,       \* the window was destroyed
    tk_path,         \* the path the last _poll_provider took
    tk_last_seen_ts, \* self._last_seen_ts (ui.overlay.PokerHUD)
    tk_polls         \* number of _poll_provider executions so far

text_vars == <<ocr_installed, reader, text_zones, ema_values, stable_values,
               text_in, text_out, text_calls>>

card_vars == <<game_state, last_cards_hash, cards_in, frames, heap,
               frame_refs, card_raised, card_calls>>

bus_vars == <<bus_snap, bus_ts, bus_lock, mono_clock, pub_log>>
hp_vars == <<hp_use_real, hp_ready, hp_stop, hp_last_state, hp_last_policy,
             w_pc, w_phase, w_img, w_state, w_snap, sim_counter>>
hud_vars == <<hud_pc, hud_got, hud_view>>

ri_vars == <<ri_init_ok, ri_pipeline, ri_running, ri_enabled, ri_thread,
             ri_started, ri_wpc, ri_wframe, ri_queue, ri_last_recognition,
             ri_last_update_time, wall_clock, ri_submitted, ri_update_log,
             ri_raise_log, ui_pc, ui_seen>>

fn_vars == <<fn_name, fn_in, fn_out>>

cal_vars == <<cal_card_zones, cal_keys, cal_zones, cal_current_card,
              cal_zone_type, cal_saved, cal_ops>>

tk_vars == <<tk_hud, tk_after, tk_closed, tk_path, tk_last_seen_ts, tk_polls>>

vars == <<text_vars, card_vars, program, bus_vars, hp_vars, hud_vars, ri_vars,
          fn_vars, cal_vars, tk_vars>>

----------------------------------------------------------------------------
\* Bounds of the model.

MaxCalls == 2
MaxCycles == 2
MaxThreads == 2
MaxFrames == 3

RECURSIVE Pow20(_)
Pow20(k) == IF k = 0 THEN 1 ELSE 20 * Pow20(k - 1)

\* One amount unit in fixed point; exact for MaxCalls EMA updates.
Scale == Pow20(MaxCalls)

None == <<>>
Some(v) == <<v>>
IsNone(o) == o = <<>>
Val(o) == o[1]

Abs(x) == IF x < 0 THEN 0 - x ELSE x

----------------------------------------------------------------------------
\* TextRecognitionPipeline

ZoneNames == {"pot_combined", "hero_stack", "to_call", "hero_name"}

\* self.min_confidence = 0.1, self.max_value_change = 0.3,
\* self.variation_threshold = 0.2, self.ema_alpha = 0.15: as exact fractions.
MinConfidencePct == 10
MaxValueChangeNum == 3
MaxValueChangeDen == 10
VariationThresholdNum == 1
VariationThresholdDen == 5
EmaAlphaNum == 3
EmaAlphaDen == 20
MaxReasonableValue == 1000000

IsNameZone(z) == z = "hero_name"

TextResult(t, c, nv, ok) ==
    [text |-> t, confidence |-> c, normalized_value |-> nv, is_valid |-> ok]

EmptyTextResult == TextResult("", 0, None, FALSE)

\* What the OCR engine and the normaliser give for one zone of one frame:
\*   kind "raise": preprocessing / readtext raises for this zone;
\*   kind "read":  detections with mean confidence conf (percent), combined
\*                 text `text`, and `value`, the text's normalisation
\*                 (None when no number / no acceptable name is in it).
\* Detections at or under the confidence floor are dropped by the loop, so a
\* reading whose conf is not above the floor has no valid detection.
AmountTexts == {"100", "110", "125", "200"}
AmountOf(t) ==
    CASE t = "100" -> 100 * Scale
      [] t = "110" -> 110 * Scale
      [] t = "125" -> 125 * Scale
      [] t = "200" -> 200 * Scale

NumericReadings ==
    {[kind |-> "raise", conf |-> 0, text |-> "", value |-> None]}
    \cup {[kind |-> "read", conf |-> 5, text |-> "1OO", value |-> None]}
    \cup {[kind |-> "read", conf |-> 80, text |-> "--", value |-> None]}
    \cup {[kind |-> "read", conf |-> 80, text |-> t, value |-> Some(AmountOf(t))]
            : t \in AmountTexts}

NameReadings ==
    {[kind |-> "raise", conf |-> 0, text |-> "", value |-> None],
     [kind |-> "read", conf |-> 80, text |-> "7", value |-> None],
     [kind |-> "read", conf |-> 80, text |-> "Hero", value |-> Some("Hero")]}

ReadingsOf(z) == IF IsNameZone(z) THEN NameReadings ELSE NumericReadings

\* recognize_text, lines 644-655: the normaliser is chosen by the zone name;
\* extract_pot_value returns 0.0, never None, when it finds no number.
NormalizeZone(z, r) ==
    IF IsNameZone(z) THEN r.value
    ELSE IF z = "pot_combined"
         THEN (IF IsNone(r.value) THEN Some(0) ELSE r.value)
         ELSE r.value

\* _is_value_change_valid
IsValueChangeValid(ema, z, new_value) ==
    IF z \notin DOMAIN ema THEN TRUE
    ELSE LET old == ema[z] IN
         IF IsNone(old) \/ old = Some(0) THEN TRUE
         ELSE MaxValueChangeDen * Abs(new_value - Val(old))
                  <= MaxValueChangeNum * Abs(Val(old))

\* _apply_ema_filter: [ema, stable, ret]
ApplyEmaFilter(ema, stable, z, new_value) ==
    IF ~IsNone(ema[z]) /\ Val(ema[z]) > 0
       /\ VariationThresholdDen * Abs(new_value - Val(ema[z]))
              > VariationThresholdNum * Val(ema[z])
    THEN \* variation too large: keep the stable value, `stable or new_value`
         [ema |-> ema, stable |-> stable,
          ret |-> IF IsNone(stable[z]) \/ stable[z] = Some(0)
                  THEN new_value ELSE Val(stable[z])]
    ELSE LET e == IF IsNone(ema[z]) THEN new_value
                  ELSE (EmaAlphaNum * new_value
                        + (EmaAlphaDen - EmaAlphaNum) * Val(ema[z]))
                       \div EmaAlphaDen
         IN [ema |-> [ema EXCEPT ![z] = Some(e)],
             stable |-> [stable EXCEPT ![z] = Some(e)],
             ret |-> e]

\* A failure handler that also forgets the zone's temporal state.
ZoneFailedResetsFilter(st, z) ==
    [st EXCEPT !.results = [y \in (DOMAIN st.results) \cup {z} |->
                               IF y = z THEN EmptyTextResult ELSE st.results[y]],
               !.ema = [st.ema EXCEPT ![z] = None],
               !.stable = [st.stable EXCEPT ![z] = None]]

\* The except branch of the per-zone try (lines 699-708).
ZoneFailed(st, z) ==
    [st EXCEPT !.results = [y \in (DOMAIN st.results) \cup {z} |->
        IF y = z THEN EmptyTextResult ELSE st.results[y]]]

SetResult(st, z, res) ==
    [st EXCEPT !.results = [y \in (DOMAIN st.results) \cup {z} |->
        IF y = z THEN res ELSE st.results[y]]]

\* The filtered value of a numeric reading (lines 657-675): [ema, stable, ret]
FilterNumeric(st, z, nv) ==
    IF IsValueChangeValid(st.ema, z, nv)
    THEN ApplyEmaFilter(st.ema, st.stable, z, nv)
    ELSE [ema |-> st.ema, stable |-> st.stable, ret |-> nv]

\* One iteration of the zone loop of recognize_text (lines 570-708).
ProcessZone(st, z, r) ==
    IF r.kind = "raise" THEN ZoneFailed(st, z)
    ELSE IF r.conf <= MinConfidencePct
    THEN SetResult(st, z, EmptyTextResult)          \* valid_detections == 0
    ELSE LET nv == NormalizeZone(z, r) IN
         IF IsNone(nv) \/ IsNameZone(z)
         THEN SetResult(st, z,
                  TextResult(r.text, r.conf, nv,
                             r.conf > MinConfidencePct /\ ~IsNone(nv)))
         ELSE LET f == FilterNumeric(st, z, Val(nv)) IN
              SetResult([st EXCEPT !.ema = f.ema, !.stable = f.stable], z,
                  TextResult(r.text, r.conf, Some(f.ret),
                             r.conf > MinConfidencePct
                             /\ f.ret >= 0
                             /\ f.ret \div Scale < MaxReasonableValue))

RECURSIVE ProcessZones(_, _, _, _)
ProcessZones(st, zones, i, in) ==
    IF i > Len(zones) THEN st
    ELSE ProcessZones(ProcessZone(st, zones[i], in[zones[i]]), zones, i + 1, in)

\* _ensure_reader: [reader, raised]
EnsureReader(rd, installed) ==
    IF rd # "None" THEN [reader |-> rd, raised |-> FALSE]
    ELSE IF installed THEN [reader |-> "loaded", raised |-> FALSE]
    ELSE [reader |-> "None", raised |-> TRUE]

NoResults == [y \in {} |-> EmptyTextResult]

\* recognize_text as a function of the pipeline state and the frame:
\* [raised, reader, ema, stable, results]
RecognizeTextOp(rd, installed, zones, ema, stable, in) ==
    IF Len(zones) = 0
    THEN [raised |-> "none", reader |-> rd, ema |-> ema, stable |-> stable,
          results |-> NoResults]
    ELSE LET er == EnsureReader(rd, installed) IN
         IF er.raised
         THEN [raised |-> "RuntimeError: EasyOCR non disponible",
               reader |-> er.reader, ema |-> ema, stable |-> stable,
               results |-> NoResults]
         ELSE LET st == ProcessZones([ema |-> ema, stable |-> stable,
                                      results |-> NoResults], zones, 1, in)
              IN [raised |-> "none", reader |-> er.reader, ema |-> st.ema,
                  stable |-> st.stable, results |-> st.results]

\* Frames: one OCR outcome per configured zone.
TextFrames(zones) ==
    [{zones[i] : i \in 1..Len(zones)} -> NumericReadings \cup NameReadings]

FrameFits(zones, in) ==
    \A i \in 1..Len(zones) : in[zones[i]] \in ReadingsOf(zones[i])

TextLayout == <<"pot_combined", "hero_stack", "hero_name">>

\* The state a TextRecognitionPipeline is constructed in, for a layout.
TextInitFor(layout) ==
    /\ ocr_installed \in BOOLEAN
    /\ reader = "None"
    /\ text_zones = layout
    /\ ema_values = [z \in ZoneNames |-> None]
    /\ stable_values = [z \in ZoneNames |-> None]
    /\ text_in = [y \in {} |-> 0]
    /\ text_out = [raised |-> "none", results |-> NoResults]
    /\ text_calls = 0

\* A caller hands a frame to recognize_text.
RecognizeText ==
    /\ text_calls < MaxCalls
    /\ \E in \in TextFrames(text_zones) :
         /\ FrameFits(text_zones, in)
         /\ LET o == RecognizeTextOp(reader, ocr_installed, text_zones,
                                     ema_values, stable_values, in)
            IN /\ reader' = o.reader
               /\ ema_values' = o.ema
               /\ stable_values' = o.stable
               /\ text_out' = [raised |-> o.raised, results |-> o.results]
               /\ text_in' = in
    /\ text_calls' = text_calls + 1
    /\ UNCHANGED <<ocr_installed, text_zones>>

TextNext ==
    RecognizeText /\ UNCHANGED <<card_vars, program, bus_vars, hp_vars, hud_vars,
                                 ri_vars, fn_vars, cal_vars,
                   tk_vars>>

----------------------------------------------------------------------------
\* CardRecognitionPipeline

Streets == {"preflop", "flop", "turn", "river"}

CardResult(r, s) == [rank |-> r, suit |-> s]

\* `card.rank and card.suit`
Populated(c) == ~IsNone(c.rank) /\ ~IsNone(c.suit)

VisibleCards(board) == Cardinality({i \in 1..5 : Populated(board[i])})

\* The naive count-based mapping: fewer than 3 cards is preflop.
UpdateGameStateNaive(gs, board) ==
    LET n == VisibleCards(board) IN
    IF n = 5 THEN "river" ELSE IF n = 4 THEN "turn"
    ELSE IF n = 3 THEN "flop" ELSE "preflop"

\* _update_game_state: the new self.game_state
UpdateGameState(gs, board) ==
    LET n == VisibleCards(board) IN
    IF n = 0 THEN "preflop"
    ELSE IF n = 3 THEN "flop"
    ELSE IF n = 4 THEN "turn"
    ELSE IF n = 5 THEN "river"
    ELSE gs

\* _detect_cards_change: the tuple that is hashed, "??" for an unset slot.
CardString(c) == IF Populated(c) THEN <<Val(c.rank), Val(c.suit)>> ELSE <<"??">>
CardsTuple(hero, board) ==
    [i \in 1..7 |-> IF i <= 2 THEN CardString(hero[i]) ELSE CardString(board[i - 2])]

\* Per-slot results as the matching and the validity gate leave them: a slot
\* is recognised (rank and suit), half recognised (rank only), or unseen.
SlotRank == <<"A", "K", "Q", "2", "7">>
SlotSuit == <<"s", "h", "d", "c", "s">>
SlotResult(i, kind) ==
    CASE kind = "full" -> CardResult(Some(SlotRank[i]), Some(SlotSuit[i]))
      [] kind = "rank" -> CardResult(Some(SlotRank[i]), None)
      [] kind = "none" -> CardResult(None, None)

BoardMasks == {1..k : k \in 0..5} \cup {{1, 2, 4}, {5}}
BoardInputs ==
    {[i \in 1..5 |-> SlotResult(i, IF i \in m THEN "full" ELSE "none")]
        : m \in BoardMasks}
    \cup {[i \in 1..5 |-> SlotResult(i, IF i \in m THEN "full"
                                        ELSE IF i = Cardinality(m) + 1
                                             THEN "rank" ELSE "none")]
             : m \in {1..k : k \in {0, 2, 4}}}
HeroInputs ==
    {[i \in 1..2 |-> SlotResult(i, k)] : k \in {"full", "none"}}

CardLayout == <<"hero_name">>

\* A pipeline that keeps its result lists and refills them at every call.
AllocateFrameInPlace(h, hero, board, text) ==
    [heap |-> <<hero, board, text>>,
     refs |-> [hero_cards |-> 1, board_cards |-> 2, text_results |-> 3]]

\* The objects a RecognitionFrame is built from: the two lists that
\* copy.deepcopy returns and the dict that recognize_text builds are new
\* objects at every call; `frames` holds what each frame read when returned.
AllocateFrame(h, hero, board, text) ==
    [heap |-> h \o <<hero, board, text>>,
     refs |-> [hero_cards |-> Len(h) + 1, board_cards |-> Len(h) + 2,
               text_results |-> Len(h) + 3]]

CardInit ==
    /\ game_state = "preflop"
    /\ last_cards_hash = None
    /\ cards_in = None
    /\ frames = <<>>
    /\ heap = <<>>
    /\ frame_refs = <<>>
    /\ card_raised = "none"
    /\ card_calls = 0

\* recognize_cards: slot results, change detection, street update, then the
\* text pipeline; a RecognitionFrame is returned unless recognize_text raises.
RecognizeCards ==
    /\ card_calls < MaxCalls
    /\ \E hero \in HeroInputs, board \in BoardInputs,
          in \in TextFrames(text_zones) :
         /\ FrameFits(text_zones, in)
         /\ cards_in' = [hero |-> hero, board |-> board]
         /\ last_cards_hash' = Some(CardsTuple(hero, board))
         /\ game_state' = UpdateGameState(game_state, board)
         /\ LET o == RecognizeTextOp(reader, ocr_installed, text_zones,
                                     ema_values, stable_values, in)
            IN /\ reader' = o.reader
               /\ ema_values' = o.ema
               /\ stable_values' = o.stable
               /\ text_out' = [raised |-> o.raised, results |-> o.results]
               /\ text_in' = in
               /\ card_raised' = o.raised
               /\ frames' = IF o.raised # "none" THEN frames
                            ELSE Append(frames,
                                   [hero_cards |-> hero, board_cards |-> board,
                                    game_state |-> game_state',
                                    text_results |-> o.results])
               /\ LET a == AllocateFrame(heap, hero, board, o.results) IN
                  IF o.raised # "none" THEN UNCHANGED <<heap, frame_refs>>
                  ELSE /\ heap' = a.heap
                       /\ frame_refs' = Append(frame_refs,
                              [hero_cards |-> a.refs.hero_cards,
                               board_cards |-> a.refs.board_cards,
                               game_state |-> game_state',
                               text_results |-> a.refs.text_results])
    /\ text_calls' = text_calls + 1
    /\ card_calls' = card_calls + 1
    /\ UNCHANGED <<ocr_installed, text_zones>>

CardNext ==
    RecognizeCards /\ UNCHANGED <<program, bus_vars, hp_vars, hud_vars, ri_vars,
                                  fn_vars, cal_vars,
                   tk_vars>>

----------------------------------------------------------------------------
\* launch_overlay.py: SnapshotBus, HybridProvider, the HUD's poll

\* infer_street: the first of (0, 3, 4, 5) that is >= n picks the street;
\* more than 5 cards raise StopIteration.
InferStreet(n) ==
    IF n <= 0 THEN "preflop"
    ELSE IF n <= 3 THEN "flop"
    ELSE IF n <= 4 THEN "turn"
    ELSE IF n <= 5 THEN "river"
    ELSE "StopIteration"

HandState(src, hero, board, pot) ==
    [source |-> src, street |-> InferStreet(Len(board)), hero_cards |-> hero,
     board |-> board, pot |-> pot]

\* _get_simulated_state
SimulatedState(counter) ==
    HandState("simulated",
              IF counter % 10 < 5 THEN <<"Ah", "Kd">> ELSE <<"Qc", "Js">>,
              IF counter % 20 < 10 THEN <<"As", "Kh", "Qd">>
              ELSE <<"2c", "3h", "4d", "5s">>,
              Some(100 + (counter % 50) * 10))

\* What a successful capture can be recognised as: the board cards read.
RealBoards == {<<>>, <<"As", "Kh">>, <<"As", "Kh", "Qd", "2c">>}

\* _build_state
BuildState(board) == HandState("recognized", <<"Ah", "Kd">>, board, None)

\* Outcomes of _try_real_recognition's capture and recognition.
CaptureOutcomes ==
    {[img |-> "None", built |-> FALSE, board |-> <<>>]}
    \cup {[img |-> "image", built |-> FALSE, board |-> <<>>]}
    \cup {[img |-> "image", built |-> TRUE, board |-> b] : b \in RealBoards}

\* _try_real_recognition: Some(state) or None
TryRealRecognition(c) ==
    IF c.img = "None" THEN None
    ELSE IF c.built THEN Some(BuildState(c.board))
    ELSE None

\* The state the worker's cycle settles on (lines 240-247).
CycleStateNoFallback(use_real, c, counter) ==
    IF use_real
    THEN (IF IsNone(TryRealRecognition(c)) THEN BuildState(<<>>)
          ELSE Val(TryRealRecognition(c)))
    ELSE SimulatedState(counter)

CycleState(use_real, c, counter) ==
    IF use_real
    THEN (IF IsNone(TryRealRecognition(c)) THEN SimulatedState(counter)
          ELSE Val(TryRealRecognition(c)))
    ELSE SimulatedState(counter)

EmptyPolicy == [action |-> "", computed_for |-> None]

\* ask_policy's answers: a policy for the state, or nothing (it raised, or
\* the strategy module is unavailable).  computed_for records the state the
\* policy was asked for.
PolicyAnswers(st) ==
    {EmptyPolicy, [action |-> "call", computed_for |-> Some(st)]}

\* _publish_snapshot builds its packet from the provider's fields.
MakeSnap(st, pol) == [state |-> st, policy |-> pol]

\* threading.Lock: it can be taken only while nobody holds it.
LockIgnored(lock) == TRUE

LockFree(lock) == lock = "free"

\* `while not self._stop`
HpLoopIgnoresStop(stop) == TRUE

HpLoopContinues(stop) == ~stop

BusInit ==
    /\ bus_snap = None
    /\ bus_ts = 0
    /\ bus_lock = "free"
    /\ mono_clock = 0
    /\ pub_log = <<>>

HpInit ==
    /\ hp_use_real \in BOOLEAN
    /\ hp_ready = FALSE
    /\ hp_stop = FALSE
    /\ hp_last_state = None
    /\ hp_last_policy = EmptyPolicy
    /\ w_pc = "init_sleep"
    /\ w_phase = 0
    /\ w_img = "unset"
    /\ w_state = None
    /\ w_snap = None
    /\ sim_counter = 0

HudInit ==
    /\ hud_pc = "idle"
    /\ hud_got = <<None, 0>>
    /\ hud_view = None

\* A step of launch_overlay: the rest of the model stays as it is.
Overlay ==
    /\ program = "launch_overlay"
    /\ UNCHANGED <<text_vars, card_vars, program, ri_vars, fn_vars, cal_vars,
                   tk_vars>>

\* _worker, lines 229-235
W_Start ==
    /\ Overlay /\ w_pc = "init_sleep"
    /\ hp_ready' = TRUE
    /\ w_pc' = "loop"
    /\ UNCHANGED <<hp_use_real, hp_stop, hp_last_state, hp_last_policy, w_phase,
                   w_img, w_state, w_snap, sim_counter, bus_vars, hud_vars>>

\* _worker, line 238: the loop test
W_LoopCheck ==
    /\ Overlay /\ w_pc = "loop"
    /\ IF HpLoopContinues(hp_stop)
       THEN /\ sim_counter < MaxCycles
            /\ w_pc' = "recognize"
       ELSE w_pc' = "done"
    /\ w_img' = "unset"
    /\ UNCHANGED <<hp_use_real, hp_ready, hp_stop, hp_last_state, hp_last_policy,
                   w_phase, w_state, w_snap, sim_counter, bus_vars, hud_vars>>

\* _worker, lines 240-251 up to the first _publish_snapshot's packet
W_Recognize ==
    /\ Overlay /\ w_pc = "recognize"
    /\ \E c \in CaptureOutcomes :
         /\ w_img' = IF hp_use_real THEN c.img ELSE "unset"
         /\ w_state' = Some(CycleState(hp_use_real, c, sim_counter))
    /\ hp_last_state' = w_state'
    /\ w_snap' = Some(MakeSnap(hp_last_state', hp_last_policy))
    /\ w_phase' = 1
    /\ w_pc' = "pub_lock"
    /\ UNCHANGED <<hp_use_real, hp_ready, hp_stop, hp_last_policy, sim_counter,
                   bus_vars, hud_vars>>

\* SnapshotBus.publish, line 59: take the lock
W_PubLock ==
    /\ Overlay /\ w_pc = "pub_lock"
    /\ LockFree(bus_lock)
    /\ bus_lock' = "worker"
    /\ w_pc' = "pub_snap"
    /\ UNCHANGED <<bus_snap, bus_ts, mono_clock, pub_log, hp_use_real, hp_ready,
                   hp_stop, hp_last_state, hp_last_policy, w_phase, w_img,
                   w_state, w_snap, sim_counter, hud_vars>>

\* SnapshotBus.publish, line 60
W_PubSnap ==
    /\ Overlay /\ w_pc = "pub_snap"
    /\ bus_snap' = w_snap
    /\ w_pc' = "pub_ts"
    /\ UNCHANGED <<bus_ts, bus_lock, mono_clock, pub_log, hp_use_real, hp_ready,
                   hp_stop, hp_last_state, hp_last_policy, w_phase, w_img,
                   w_state, w_snap, sim_counter, hud_vars>>

\* SnapshotBus.publish, line 61: every call of time.monotonic() is later
W_PubTs ==
    /\ Overlay /\ w_pc = "pub_ts"
    /\ mono_clock' = mono_clock + 1
    /\ bus_ts' = mono_clock'
    /\ w_pc' = "pub_unlock"
    /\ UNCHANGED <<bus_snap, bus_lock, pub_log, hp_use_real, hp_ready,
                   hp_stop, hp_last_state, hp_last_policy, w_phase, w_img,
                   w_state, w_snap, sim_counter, hud_vars>>

\* SnapshotBus.publish returns: the lock is released, the publish is complete;
\* after the first publish the policy is asked for, after the second the
\* cycle ends (sim_counter += 1, sleep).
W_PubUnlock ==
    /\ Overlay /\ w_pc = "pub_unlock"
    /\ bus_lock' = "free"
    /\ pub_log' = Append(pub_log, <<w_snap, bus_ts>>)
    /\ IF w_phase = 1
       THEN /\ w_pc' = "policy"
            /\ sim_counter' = sim_counter
       ELSE /\ w_pc' = "loop"
            /\ sim_counter' = sim_counter + 1
    /\ UNCHANGED <<bus_snap, bus_ts, mono_clock, hp_use_real, hp_ready, hp_stop,
                   hp_last_state, hp_last_policy, w_phase, w_img, w_state,
                   w_snap, hud_vars>>

\* _worker, lines 254-265 up to the second _publish_snapshot's packet
W_Policy ==
    /\ Overlay /\ w_pc = "policy"
    /\ \E pol \in PolicyAnswers(Val(w_state)) : hp_last_policy' = pol
    /\ w_snap' = Some(MakeSnap(hp_last_state, hp_last_policy'))
    /\ w_phase' = 2
    /\ w_pc' = "pub_lock"
    /\ UNCHANGED <<hp_use_real, hp_ready, hp_stop, hp_last_state, w_img,
                   w_state, sim_counter, bus_vars, hud_vars>>

\* HybridProvider.stop
HpStop ==
    /\ Overlay /\ ~hp_stop
    /\ hp_stop' = TRUE
    /\ UNCHANGED <<hp_use_real, hp_ready, hp_last_state, hp_last_policy, w_pc,
                   w_phase, w_img, w_state, w_snap, sim_counter, bus_vars,
                   hud_vars>>

\* PokerHUD._poll_provider up to SnapshotBus.get taking the lock; a poll
\* before the provider is ready returns at once.
HudPoll ==
    /\ Overlay /\ hud_pc = "idle"
    /\ hp_ready
    /\ LockFree(bus_lock)
    /\ bus_lock' = "hud"
    /\ hud_pc' = "get"
    /\ UNCHANGED <<bus_snap, bus_ts, mono_clock, pub_log, hp_vars, hud_got,
                   hud_view>>

\* SnapshotBus.get returns (snap, ts) and releases the lock; the poll renders
\* the packet when it holds a state.
HudGet ==
    /\ Overlay /\ hud_pc = "get"
    /\ hud_got' = <<bus_snap, bus_ts>>
    /\ hud_view' = IF IsNone(bus_snap) \/ IsNone(Val(bus_snap).state)
                   THEN hud_view ELSE bus_snap
    /\ bus_lock' = "free"
    /\ hud_pc' = "idle"
    /\ UNCHANGED <<bus_snap, bus_ts, mono_clock, pub_log, hp_vars>>

OverlayNext ==
    \/ W_Start \/ W_LoopCheck \/ W_Recognize \/ W_PubLock \/ W_PubSnap
    \/ W_PubTs \/ W_PubUnlock \/ W_Policy \/ HpStop \/ HudPoll \/ HudGet

----------------------------------------------------------------------------
\* ocr/recognition_integration.py: RecognitionIntegration, driven by the UI
\* thread of ui/live_preview.py

QueueMaxSize == 10

Threads == 1..MaxThreads

RiInit ==
    /\ ri_init_ok \in BOOLEAN
    /\ ri_pipeline = "None"
    /\ ri_running = FALSE
    /\ ri_enabled = FALSE
    /\ ri_thread = 0
    /\ ri_started = 0
    /\ ri_wpc = [t \in Threads |-> "unborn"]
    /\ ri_wframe = [t \in Threads |-> 0]
    /\ ri_queue = <<>>
    /\ ri_last_recognition = None
    /\ ri_last_update_time = 0
    /\ wall_clock = 0
    /\ ri_submitted = 0
    /\ ri_update_log = {}
    /\ ri_raise_log = {}
    /\ ui_pc = "idle"
    /\ ui_seen = None

\* A step of launch_live_preview: the rest of the model stays as it is.
Preview ==
    /\ program = "launch_live_preview"
    /\ UNCHANGED <<text_vars, card_vars, program, bus_vars, hp_vars, hud_vars,
                   fn_vars, cal_vars,
                   tk_vars>>

Alive(t) == ri_wpc[t] \notin {"unborn", "done"}

\* `while self.is_running`
RiLoopContinues(running) == running

\* _toggle_recognition's enabling branch: recognition_enabled = True, then
\* start_recognition (lines 64-80).
U_Start ==
    /\ Preview /\ ui_pc = "idle"
    /\ ~ri_enabled
    /\ ri_enabled' = TRUE
    /\ IF ri_pipeline = "None" /\ ~ri_init_ok
       THEN \* initialize_pipeline failed: return False
            UNCHANGED <<ri_pipeline, ri_running, ri_thread, ri_started, ri_wpc>>
       ELSE /\ ri_pipeline' = "ready"
            /\ IF ri_running
               THEN UNCHANGED <<ri_running, ri_thread, ri_started, ri_wpc>>
               ELSE /\ ri_started < MaxThreads
                    /\ ri_running' = TRUE
                    /\ ri_started' = ri_started + 1
                    /\ ri_thread' = ri_started'
                    /\ ri_wpc' = [ri_wpc EXCEPT ![ri_started'] = "loop"]
    /\ UNCHANGED <<ri_init_ok, ri_wframe, ri_queue, ri_last_recognition,
                   ri_last_update_time, wall_clock, ri_submitted, ri_update_log,
                   ui_pc, ui_seen,
                   ri_raise_log>>

\* _toggle_recognition's disabling branch: recognition_enabled = False, then
\* stop_recognition up to its join (lines 84-86).
U_Stop ==
    /\ Preview /\ ui_pc = "idle"
    /\ ri_enabled
    /\ ri_enabled' = FALSE
    /\ ri_running' = FALSE
    /\ ui_pc' = IF ri_thread # 0 THEN "joining" ELSE "idle"
    /\ UNCHANGED <<ri_init_ok, ri_pipeline, ri_thread, ri_started, ri_wpc,
                   ri_wframe, ri_queue, ri_last_recognition,
                   ri_last_update_time, wall_clock, ri_submitted, ri_update_log,
                   ui_seen,
                   ri_raise_log>>

\* join(timeout=1.0) returns: the thread has ended, or the second has passed
\* while the worker is still inside recognize_cards.
U_JoinReturns ==
    /\ Preview /\ ui_pc = "joining"
    /\ \/ ri_wpc[ri_thread] = "done"
       \/ ri_wpc[ri_thread] = "recognize"
    /\ ui_pc' = "idle"
    /\ UNCHANGED <<ri_init_ok, ri_pipeline, ri_running, ri_enabled, ri_thread,
                   ri_started, ri_wpc, ri_wframe, ri_queue, ri_last_recognition,
                   ri_last_update_time, wall_clock, ri_submitted, ri_update_log,
                   ui_seen,
                   ri_raise_log>>

\* process_frame, called by the preview loop with each captured frame; frames
\* are numbered in the order they are submitted.
U_ProcessFrame ==
    /\ Preview /\ ui_pc = "idle"
    /\ ri_enabled /\ ri_running
    /\ ri_submitted < MaxFrames
    /\ ri_submitted' = ri_submitted + 1
    /\ ri_queue' = IF Len(ri_queue) < QueueMaxSize
                   THEN Append(ri_queue, ri_submitted')
                   ELSE ri_queue
    /\ UNCHANGED <<ri_init_ok, ri_pipeline, ri_running, ri_enabled, ri_thread,
                   ri_started, ri_wpc, ri_wframe, ri_last_recognition,
                   ri_last_update_time, wall_clock, ri_update_log, ui_pc,
                   ui_seen,
                   ri_raise_log>>

\* is_recognition_stale, line 256: read last_recognition
U_StaleReadFrame ==
    /\ Preview /\ ui_pc = "idle"
    /\ ri_enabled /\ ri_running
    /\ IF IsNone(ri_last_recognition)
       THEN UNCHANGED <<ui_pc, ui_seen>>
       ELSE /\ ui_pc' = "stale_time"
            /\ ui_seen' = Some(<<Val(ri_last_recognition), 0>>)
    /\ UNCHANGED <<ri_init_ok, ri_pipeline, ri_running, ri_enabled, ri_thread,
                   ri_started, ri_wpc, ri_wframe, ri_queue, ri_last_recognition,
                   ri_last_update_time, wall_clock, ri_submitted, ri_update_log,
                   ri_raise_log>>

\* is_recognition_stale, line 259: read last_update_time
U_StaleReadTime ==
    /\ Preview /\ ui_pc = "stale_time"
    /\ ui_seen' = Some(<<Val(ui_seen)[1], ri_last_update_time>>)
    /\ ui_pc' = "idle"
    /\ UNCHANGED <<ri_init_ok, ri_pipeline, ri_running, ri_enabled, ri_thread,
                   ri_started, ri_wpc, ri_wframe, ri_queue, ri_last_recognition,
                   ri_last_update_time, wall_clock, ri_submitted, ri_update_log,
                   ri_raise_log>>

\* _recognition_worker, line 91: the loop test
R_LoopCheck(t) ==
    /\ Preview /\ ri_wpc[t] = "loop"
    /\ ri_wpc' = [ri_wpc EXCEPT ![t] =
                     IF RiLoopContinues(ri_running) THEN "get" ELSE "done"]
    /\ UNCHANGED <<ri_init_ok, ri_pipeline, ri_running, ri_enabled, ri_thread,
                   ri_started, ri_wframe, ri_queue, ri_last_recognition,
                   ri_last_update_time, wall_clock, ri_submitted, ri_update_log,
                   ui_pc, ui_seen,
                   ri_raise_log>>

\* _recognition_worker, line 94: queue.get(timeout=1.0) hands over the oldest
\* frame, or raises Empty after a second without one.
R_Get(t) ==
    /\ Preview /\ ri_wpc[t] = "get"
    /\ IF ri_queue = <<>>
       THEN /\ ri_wpc' = [ri_wpc EXCEPT ![t] = "loop"]
            /\ UNCHANGED <<ri_queue, ri_wframe>>
       ELSE /\ ri_wframe' = [ri_wframe EXCEPT ![t] = Head(ri_queue)]
            /\ ri_queue' = Tail(ri_queue)
            /\ ri_wpc' = [ri_wpc EXCEPT ![t] = "recognize"]
    /\ UNCHANGED <<ri_init_ok, ri_pipeline, ri_running, ri_enabled, ri_thread,
                   ri_started, ri_last_recognition, ri_last_update_time,
                   wall_clock, ri_submitted, ri_update_log, ui_pc, ui_seen,
                   ri_raise_log>>

\* _recognition_worker, line 97: recognize_cards returns a frame, or raises
\* (then the handler of line 112 sleeps and the loop goes on).
R_Recognize(t) ==
    /\ Preview /\ ri_wpc[t] = "recognize"
    /\ \E raised \in BOOLEAN :
         /\ ri_wpc' = [ri_wpc EXCEPT ![t] =
                          IF raised THEN "loop" ELSE "set_rec"]
         /\ ri_raise_log' =
              IF raised THEN ri_raise_log \cup {<<ri_wframe[t], ri_submitted>>}
              ELSE ri_raise_log
    /\ UNCHANGED <<ri_init_ok, ri_pipeline, ri_running, ri_enabled, ri_thread,
                   ri_started, ri_wframe, ri_queue, ri_last_recognition,
                   ri_last_update_time, wall_clock, ri_submitted, ri_update_log,
                   ui_pc, ui_seen>>

\* _recognition_worker, line 100
R_SetRecognition(t) ==
    /\ Preview /\ ri_wpc[t] = "set_rec"
    /\ ri_last_recognition' = Some(ri_wframe[t])
    /\ ri_wpc' = [ri_wpc EXCEPT ![t] = "set_time"]
    /\ UNCHANGED <<ri_init_ok, ri_pipeline, ri_running, ri_enabled, ri_thread,
                   ri_started, ri_wframe, ri_queue, ri_last_update_time,
                   wall_clock, ri_submitted, ri_update_log, ui_pc, ui_seen,
                   ri_raise_log>>

\* _recognition_worker, line 101: every call of time.time() is later
R_SetUpdateTime(t) ==
    /\ Preview /\ ri_wpc[t] = "set_time"
    /\ wall_clock' = wall_clock + 1
    /\ ri_last_update_time' = wall_clock'
    /\ ri_update_log' = ri_update_log \cup {<<ri_wframe[t], wall_clock'>>}
    /\ ri_wpc' = [ri_wpc EXCEPT ![t] = "drain"]
    /\ UNCHANGED <<ri_init_ok, ri_pipeline, ri_running, ri_enabled, ri_thread,
                   ri_started, ri_wframe, ri_queue, ri_last_recognition,
                   ri_submitted, ui_pc, ui_seen,
                   ri_raise_log>>

\* _recognition_worker, lines 104-108: one turn of the loop emptying the queue
R_Drain(t) ==
    /\ Preview /\ ri_wpc[t] = "drain"
    /\ IF ri_queue = <<>>
       THEN /\ ri_wpc' = [ri_wpc EXCEPT ![t] = "loop"]
            /\ UNCHANGED ri_queue
       ELSE /\ ri_queue' = Tail(ri_queue)
            /\ UNCHANGED ri_wpc
    /\ UNCHANGED <<ri_init_ok, ri_pipeline, ri_running, ri_enabled, ri_thread,
                   ri_started, ri_wframe, ri_last_recognition,
                   ri_last_update_time, wall_clock, ri_submitted, ri_update_log,
                   ui_pc, ui_seen,
                   ri_raise_log>>

WorkerStep(t) ==
    \/ R_LoopCheck(t) \/ R_Get(t) \/ R_Recognize(t) \/ R_SetRecognition(t)
    \/ R_SetUpdateTime(t) \/ R_Drain(t)

PreviewNext ==
    \/ U_Start \/ U_Stop \/ U_JoinReturns \/ U_ProcessFrame
    \/ U_StaleReadFrame \/ U_StaleReadTime
    \/ \E t \in Threads : R_LoopCheck(t)
    \/ \E t \in Threads : R_Get(t)
    \/ \E t \in Threads : R_Recognize(t)
    \/ \E t \in Threads : R_SetRecognition(t)
    \/ \E t \in Threads : R_SetUpdateTime(t)
    \/ \E t \in Threads : R_Drain(t)

ThreadsNext == OverlayNext \/ PreviewNext

----------------------------------------------------------------------------
\* Stateless helpers of the recognisers, called one at a time

\* Text is a sequence of one-character strings; a dict is the sequence of its
\* (key, value) items in insertion order; a score is in thousandths.
Max2(a, b) == IF a >= b THEN a ELSE b
Min2(a, b) == IF a <= b THEN a ELSE b

DictHas(d, k) == \E i \in 1..Len(d) : d[i][1] = k
DictGet(d, k, default) ==
    IF DictHas(d, k) THEN d[CHOOSE i \in 1..Len(d) : d[i][1] = k][2]
    ELSE default
DictSet(d, k, v) ==
    IF DictHas(d, k)
    THEN [i \in 1..Len(d) |-> IF d[i][1] = k THEN <<k, v>> ELSE d[i]]
    ELSE Append(d, <<k, v>>)
DictKeys(d) == {d[i][1] : i \in 1..Len(d)}

\* label.split("_")[0]
RECURSIVE FirstField(_)
FirstField(label) ==
    IF label = <<>> \/ Head(label) = "_" THEN <<>>
    ELSE <<Head(label)>> \o FirstField(Tail(label))

\* The loop of _aggregate_family_scores over scores.items().
RECURSIVE AggregateFrom(_, _)
AggregateFrom(fam, scores) ==
    IF scores = <<>> THEN fam
    ELSE LET main == FirstField(scores[1][1]) IN
         AggregateFrom(DictSet(fam, main,
                               Max2(DictGet(fam, main, 0), scores[1][2])),
                       Tail(scores))

AggregateFamilyScores(scores) == AggregateFrom(<<>>, scores)

\* sorted(items, key=score, reverse=True): stable, an item goes after every
\* item already placed whose score is not lower.
RECURSIVE InsertByScore(_, _)
InsertByScore(ordered, item) ==
    IF ordered = <<>> THEN <<item>>
    ELSE IF Head(ordered)[2] >= item[2]
         THEN <<Head(ordered)>> \o InsertByScore(Tail(ordered), item)
         ELSE <<item>> \o ordered

RECURSIVE SortedByScore(_)
SortedByScore(d) ==
    IF d = <<>> THEN <<>>
    ELSE InsertByScore(SortedByScore(SubSeq(d, 1, Len(d) - 1)), d[Len(d)])

\* A chooser for which a family without a runner-up has no margin.
ChooseFamilyZeroMargin(fam) ==
    IF fam = <<>> THEN [label |-> None, top1 |-> 0, margin |-> 0]
    ELSE LET ordered == SortedByScore(fam) IN
         IF Len(ordered) = 1
         THEN [label |-> Some(ordered[1][1]), top1 |-> ordered[1][2],
               margin |-> 0]
         ELSE [label |-> Some(ordered[1][1]), top1 |-> ordered[1][2],
               margin |-> Max2(0, ordered[1][2] - ordered[2][2])]

\* _choose_family_with_margin: (label, top1, margin)
ChooseFamilyWithMargin(fam) ==
    IF fam = <<>> THEN [label |-> None, top1 |-> 0, margin |-> 0]
    ELSE LET ordered == SortedByScore(fam) IN
         IF Len(ordered) = 1
         THEN [label |-> Some(ordered[1][1]), top1 |-> ordered[1][2],
               margin |-> ordered[1][2]]
         ELSE [label |-> Some(ordered[1][1]), top1 |-> ordered[1][2],
               margin |-> Max2(0, ordered[1][2] - ordered[2][2])]

\* Template labels are the file stems of the templates directory, in the
\* order the directory lists them; every loaded template gets a score.
RankLabels == << <<"A", "_", "1">>, <<"A", "_", "2">>, <<"K", "_", "1">> >>
SuitLabels == << <<"h", "_", "1">>, <<"s", "_", "1">> >>

\* Scores of cv2.matchTemplate (TM_CCOEFF_NORMED, in [-1, 1]), thousandths.
\* No two grid values are exactly 0.01 or 0.02 apart, where the outcome of a
\* margin test would hang on the binary rounding of the subtraction.
ScoreGrid == {-200, 0, 105, 120, 135, 143, 150, 400}

RECURSIVE ScoreMapsFrom(_)
ScoreMapsFrom(labels) ==
    IF labels = <<>> THEN {<<>>}
    ELSE LET rest == ScoreMapsFrom(Tail(labels)) IN
         rest \cup {<<(<<Head(labels), s>>)>> \o m : s \in ScoreGrid, m \in rest}

FnInit ==
    /\ fn_name = "none"
    /\ fn_in = <<>>
    /\ fn_out = <<>>

\* One call is looked at: the helpers keep nothing from call to call.
Library ==
    /\ program = "library"
    /\ fn_name = "none"
    /\ UNCHANGED <<text_vars, card_vars, program, bus_vars, hp_vars, hud_vars,
                   ri_vars, cal_vars,
                   tk_vars>>

CallAggregateFamilyScores ==
    /\ Library
    /\ \E scores \in ScoreMapsFrom(RankLabels) :
         /\ fn_name' = "_aggregate_family_scores"
         /\ fn_in' = scores
         /\ fn_out' = AggregateFamilyScores(scores)

\* recognize_cards hands the chooser the aggregate of a score map.
CallChooseFamilyWithMargin ==
    /\ Library
    /\ \E scores \in ScoreMapsFrom(RankLabels) :
         /\ fn_name' = "_choose_family_with_margin"
         /\ fn_in' = AggregateFamilyScores(scores)
         /\ fn_out' = ChooseFamilyWithMargin(fn_in')

\* CardRecognitionPipeline settings (thousandths): confidence_threshold = 0.3,
\* min_top1_score = 0.35, min_top1_margin = 0.07; confidence_alpha = 2.0 and
\* confidence_beta = 1.5 in halves.
ConfidenceThreshold == 300
MinTop1Score == 350
MinTop1Margin == 70
ConfidenceAlphaHalves == 4
ConfidenceBetaHalves == 3

CardNames == {"hero_left", "hero_right", "board_card1", "board_card2",
              "board_card3", "board_card4", "board_card5"}

\* 'board' in card_name.lower()
IsBoardCard(card_name) == card_name \notin {"hero_left", "hero_right"}

\* The slot a result is stored in: hero left 1, right 2; board_cardN is N.
SlotIndex(card_name) ==
    CASE card_name = "hero_left" -> 1
      [] card_name = "hero_right" -> 2
      [] card_name = "board_card1" -> 1
      [] card_name = "board_card2" -> 2
      [] card_name = "board_card3" -> 3
      [] card_name = "board_card4" -> 4
      [] card_name = "board_card5" -> 5

\* The thresholds of step 4 (lines 732-739).  In binary floating point
\* 0.07 - 0.05 and 0.07 - 0.06 come out a few 1e-18 above 0.02 and 0.01;
\* ScoreGrid keeps every margin off these two values.
ScoreThreshold(is_board) ==
    IF is_board THEN Max2(120, MinTop1Score - 250)
    ELSE Max2(150, MinTop1Score - 200)
RankMarginThreshold(is_board) ==
    IF is_board THEN Max2(10, MinTop1Margin - 80)
    ELSE Max2(20, MinTop1Margin - 50)
SuitMarginThreshold(is_board) ==
    IF is_board THEN Max2(10, MinTop1Margin - 80)
    ELSE Max2(10, MinTop1Margin - 60)

RankValid(is_board, top1, margin) ==
    top1 >= ScoreThreshold(is_board) /\ margin >= RankMarginThreshold(is_board)
SuitValid(is_board, top1, margin) ==
    top1 >= ScoreThreshold(is_board) /\ margin >= SuitMarginThreshold(is_board)

\* _sigmoid_conf, 1 / (1 + exp(-(alpha * top1 + beta * margin))), in
\* thousandths, rounded down to a step: 0.5 at 0, 0.6 from ln 1.5 = 0.4055 on,
\* 0.731 from 1 on, 0.88 from 2 on.  The argument is kept doubled.
SigmoidConf(top1, margin) ==
    LET x2 == ConfidenceAlphaHalves * top1 + ConfidenceBetaHalves * margin IN
    IF x2 < 0 THEN 0
    ELSE IF x2 < 811 THEN 500
    ELSE IF x2 < 2000 THEN 600
    ELSE IF x2 < 4000 THEN 731
    ELSE 880

\* `if rank_main`: a label that is neither None nor the empty string
Truthy(label) == ~IsNone(label) /\ Val(label) # <<>>

\* _format_card_label: the first field of the name, through rank_mapping and
\* suit_mapping, which map each of their keys to itself.
FormatCardLabel(template_name) == FirstField(template_name)

SlotCard(r, s, rc, sc, cc, unc) ==
    [rank |-> r, suit |-> s, rank_confidence |-> rc, suit_confidence |-> sc,
     combined_confidence |-> cc, is_uncertain |-> unc]

\* CardResult()
DefaultCard == SlotCard(None, None, 0, 0, 0, TRUE)

\* An uncertainty flag that looks at the confidence only.
SlotUncertainByConfidence(combined, rank_valid, suit_valid) ==
    combined < ConfidenceThreshold

\* is_uncertain of the CardResult built at lines 755-764
SlotUncertain(combined, rank_valid, suit_valid) ==
    (combined < ConfidenceThreshold) \/ ~rank_valid \/ ~suit_valid

\* Steps 2 to 6 of the per-card loop (lines 713-764).
MatchCard(card_name, rank_scores, suit_scores) ==
    LET r == ChooseFamilyWithMargin(AggregateFamilyScores(rank_scores))
        s == ChooseFamilyWithMargin(AggregateFamilyScores(suit_scores))
        is_board == IsBoardCard(card_name)
        rank_valid == RankValid(is_board, r.top1, r.margin)
        suit_valid == SuitValid(is_board, s.top1, s.margin)
        rc == IF Truthy(r.label) THEN SigmoidConf(r.top1, r.margin) ELSE 0
        sc == IF Truthy(s.label) THEN SigmoidConf(s.top1, s.margin) ELSE 0
        cc == (rc + sc) \div 2
    IN SlotCard(IF rank_valid /\ Truthy(r.label)
                THEN Some(FormatCardLabel(Val(r.label))) ELSE None,
                IF suit_valid /\ Truthy(s.label)
                THEN Some(FormatCardLabel(Val(s.label))) ELSE None,
                rc, sc, cc, SlotUncertain(cc, rank_valid, suit_valid))

\* The card loop of recognize_cards for a frame with one card ROI:
\* zones "missing" (a sub-zone is None) and "blank" (both sub-zones flat)
\* skip the card, which keeps the default result.
CardLoop(card_name, zones, rank_scores, suit_scores) ==
    LET result == IF zones = "ok"
                  THEN MatchCard(card_name, rank_scores, suit_scores)
                  ELSE DefaultCard
        i == SlotIndex(card_name)
    IN [hero_cards |-> [k \in 1..2 |-> IF ~IsBoardCard(card_name) /\ k = i
                                       THEN result ELSE DefaultCard],
        board_cards |-> [k \in 1..5 |-> IF IsBoardCard(card_name) /\ k = i
                                        THEN result ELSE DefaultCard]]

SlotScoreMaps ==
    ScoreMapsFrom(<<RankLabels[1], RankLabels[3]>>)

\* recognize_cards on a frame whose layout has one card ROI; the text
\* pipeline has no zone and game_state follows the board.
CallRecognizeCards ==
    /\ Library
    /\ \E card_name \in CardNames, zones \in {"ok", "missing", "blank"},
          rank_scores \in SlotScoreMaps, suit_scores \in ScoreMapsFrom(SuitLabels) :
         /\ zones # "ok" => rank_scores = <<>> /\ suit_scores = <<>>
         /\ fn_name' = "recognize_cards"
         /\ fn_in' = [card_name |-> card_name, zones |-> zones,
                      rank_scores |-> rank_scores, suit_scores |-> suit_scores]
         /\ LET slots == CardLoop(card_name, zones, rank_scores, suit_scores) IN
            fn_out' = [hero_cards |-> slots.hero_cards,
                       board_cards |-> slots.board_cards,
                       game_state |-> UpdateGameState("preflop",
                                                      slots.board_cards)]

\* The labels of a template directory are the stems of its PNG files
\* (_load_templates).  The files are named by hand (A_1.png), written by the
\* export of the live preview (rank_001.png, suit_001.png), or renamed by
\* rename_templates.py (A.png ... 10.png, h.png ...).
HandNamedTemplates ==
    [ranks |-> << <<"A", "_", "1">>, <<"K", "_", "1">> >>,
     suits |-> << <<"h", "_", "1">>, <<"s", "_", "1">> >>]
ExportedTemplates ==
    [ranks |-> << <<"r", "a", "n", "k", "_", "0", "0", "1">>,
                  <<"r", "a", "n", "k", "_", "0", "0", "2">> >>,
     suits |-> << <<"s", "u", "i", "t", "_", "0", "0", "1">>,
                  <<"s", "u", "i", "t", "_", "0", "0", "2">> >>]
RenamedTemplates ==
    [ranks |-> << <<"1", "0">>, <<"9">> >>,
     suits |-> << <<"h">>, <<"d">> >>]
TemplateDirs == {HandNamedTemplates, ExportedTemplates, RenamedTemplates}

\* Every template of the directory is scored on the zone.
TemplateScores == {120, 400}
RECURSIVE TemplateScoreMaps(_)
TemplateScoreMaps(labels) ==
    IF labels = <<>> THEN {<<>>}
    ELSE {<<(<<Head(labels), s>>)>> \o m :
             s \in TemplateScores, m \in TemplateScoreMaps(Tail(labels))}

\* recognize_cards with the templates of one directory, on one card ROI.
CallRecognizeCardsWithTemplates ==
    /\ Library
    /\ \E card_name \in {"hero_left", "board_card1"}, dir \in TemplateDirs :
       \E rank_scores \in TemplateScoreMaps(dir.ranks),
          suit_scores \in TemplateScoreMaps(dir.suits) :
         /\ fn_name' = "recognize_cards"
         /\ fn_in' = [card_name |-> card_name, zones |-> "ok",
                      rank_scores |-> rank_scores, suit_scores |-> suit_scores]
         /\ LET slots == CardLoop(card_name, "ok", rank_scores, suit_scores) IN
            fn_out' = [hero_cards |-> slots.hero_cards,
                       board_cards |-> slots.board_cards,
                       game_state |-> UpdateGameState("preflop",
                                                      slots.board_cards)]

\* ---- number extraction of the text pipeline ----

MaxAmountLen == 4

Digits == {"0", "1", "2", "3", "4", "5", "6", "7", "8", "9"}
DecimalSeparators == {".", ","}
MoneyChars == Digits \cup DecimalSeparators \cup {"k", "K", "m", "M", "€"}

IsDigit(c) == c \in Digits
DigitValue(c) ==
    CASE c = "0" -> 0 [] c = "1" -> 1 [] c = "2" -> 2 [] c = "3" -> 3
      [] c = "4" -> 4 [] c = "5" -> 5 [] c = "6" -> 6 [] c = "7" -> 7
      [] c = "8" -> 8 [] c = "9" -> 9

RECURSIVE DigitsValue(_)
DigitsValue(ds) ==
    IF ds = <<>> THEN 0
    ELSE 10 * DigitsValue(SubSeq(ds, 1, Len(ds) - 1)) + DigitValue(ds[Len(ds)])

\* A float read from a short decimal is kept as mant * 10^exp with mant not
\* ending in 0: two such floats are equal exactly when these forms are.
RECURSIVE NormDec(_, _)
NormDec(m, e) ==
    IF m = 0 THEN [mant |-> 0, exp |-> 0]
    ELSE IF m % 10 = 0 THEN NormDec(m \div 10, e + 1)
    ELSE [mant |-> m, exp |-> e]

\* float(int_part + "." + frac_part)
FloatOf(int_part, frac_part) ==
    NormDec(DigitsValue(int_part \o frac_part), 0 - Len(frac_part))

\* value * 10^n (the decimal product; the float product can differ from it
\* in its last binary digit)
TimesPow10(v, n) == IF v.mant = 0 THEN v ELSE [v EXCEPT !.exp = @ + n]

\* re.sub(r'[^\d.,kKmM€]', '', text)
RECURSIVE RemoveNonMoneyChars(_)
RemoveNonMoneyChars(text) ==
    IF text = <<>> THEN <<>>
    ELSE IF Head(text) \in MoneyChars
         THEN <<Head(text)>> \o RemoveNonMoneyChars(Tail(text))
         ELSE RemoveNonMoneyChars(Tail(text))

\* re.sub(r'[^\d.,kKmM€]', ' ', text)
BlankNonMoneyChars(text) ==
    [i \in 1..Len(text) |-> IF text[i] \in MoneyChars THEN text[i] ELSE " "]

\* self.character_corrections, one str.replace per entry
CorrectChar(c) ==
    CASE c \in {"O", "o"} -> "0"
      [] c \in {"I", "l"} -> "1"
      [] c \in {"S", "s"} -> "5"
      [] c \in {"B", "b"} -> "8"
      [] c \in {"G", "g"} -> "6"
      [] OTHER -> c

ApplyCharacterCorrections(text) == [i \in 1..Len(text) |-> CorrectChar(text[i])]

AllDigits(text, a, b) == a <= b /\ \A i \in a..b : IsDigit(text[i])

\* _fix_common_pot_errors: the first of the anchored patterns that matches
\* the whole text rewrites it.
FixCommonPotErrors(text) ==
    LET n == Len(text)
        commas == {i \in 1..n : text[i] = ","}
        c == CHOOSE i \in commas : TRUE
    IN IF n >= 4 /\ text[1] = "7" /\ Cardinality(commas) = 1
          /\ AllDigits(text, 2, c - 1) /\ AllDigits(text, c + 1, n)
       THEN <<"0", ",">> \o SubSeq(text, c + 1, n)       \* ^7(\d+),(\d+)$
       ELSE IF n >= 4 /\ text[1] = "0" /\ text[2] = "," /\ AllDigits(text, 3, n)
       THEN SubSeq(text, 1, 4)             \* ^0,(\d{2})\d+$ and ^0,(\d{2})$
       ELSE text

\* The end of the run of digits that starts at i.
RECURSIVE DigitRunEnd(_, _)
DigitRunEnd(text, i) ==
    IF i < Len(text) /\ IsDigit(text[i + 1]) THEN DigitRunEnd(text, i + 1) ELSE i

\* (\d+[.,]\d+) matched at i: the index of its last character, 0 if none.
DecimalEndAt(text, i) ==
    IF ~IsDigit(text[i]) THEN 0
    ELSE LET j == DigitRunEnd(text, i) IN
         IF j + 2 <= Len(text) /\ text[j + 1] \in DecimalSeparators
            /\ IsDigit(text[j + 2])
         THEN DigitRunEnd(text, j + 2) ELSE 0

\* float(m.replace(',', '.')) of the match text[i..k]
DecimalValue(text, i, k) ==
    LET j == DigitRunEnd(text, i) IN
    FloatOf(SubSeq(text, i, j), SubSeq(text, j + 2, k))

\* re.findall(r'(\d+[.,]\d+)', text) from index i on, as values
RECURSIVE FindAllDecimals(_, _)
FindAllDecimals(text, i) ==
    IF i > Len(text) THEN <<>>
    ELSE LET k == DecimalEndAt(text, i) IN
         IF k > 0 THEN <<DecimalValue(text, i, k)>> \o FindAllDecimals(text, k + 1)
         ELSE FindAllDecimals(text, i + 1)

\* re.findall(r'(\d+)', text) from index i on, as values
RECURSIVE FindAllIntegers(_, _)
FindAllIntegers(text, i) ==
    IF i > Len(text) THEN <<>>
    ELSE IF IsDigit(text[i])
         THEN LET j == DigitRunEnd(text, i) IN
              <<FloatOf(SubSeq(text, i, j), <<>>)>> \o FindAllIntegers(text, j + 1)
         ELSE FindAllIntegers(text, i + 1)

RECURSIVE SkipSpaces(_, _)
SkipSpaces(text, i) ==
    IF i <= Len(text) /\ text[i] = " " THEN SkipSpaces(text, i + 1) ELSE i

\* (\d+(?:[.,]\d+)?)\s*([kK]) or ...([mM]) matched at i: the end of its
\* number, 0 if none; the fraction is taken when the letter follows it.
SuffixedEndAt(text, i, letters) ==
    IF ~IsDigit(text[i]) THEN 0
    ELSE LET j == DigitRunEnd(text, i)
             k == DecimalEndAt(text, i)
             FollowedAt(e) == LET p == SkipSpaces(text, e + 1) IN
                              p <= Len(text) /\ text[p] \in letters
         IN IF k > 0 /\ FollowedAt(k) THEN k
            ELSE IF FollowedAt(j) THEN j
            ELSE 0

SuffixedStarts(text, letters) ==
    {i \in 1..Len(text) : SuffixedEndAt(text, i, letters) > 0}

\* re.search of a suffixed pattern: the value of the leftmost match
SuffixedValue(text, letters) ==
    LET starts == SuffixedStarts(text, letters)
        i == CHOOSE a \in starts : \A b \in starts : a <= b
        e == SuffixedEndAt(text, i, letters)
        j == DigitRunEnd(text, i)
    IN IF e > j THEN DecimalValue(text, i, e)
       ELSE FloatOf(SubSeq(text, i, j), <<>>)

\* _normalize_money_value: the value, None when nothing matches
NormalizeMoneyValue(text) ==
    IF text = <<>> THEN None
    ELSE LET cleaned == ApplyCharacterCorrections(RemoveNonMoneyChars(text)) IN
         IF cleaned = <<>> THEN None
         ELSE LET fixed == FixCommonPotErrors(cleaned)
                  decimals == FindAllDecimals(fixed, 1)
                  integers == FindAllIntegers(fixed, 1)
              IN IF SuffixedStarts(fixed, {"k", "K"}) # {}
                 THEN Some(TimesPow10(SuffixedValue(fixed, {"k", "K"}), 3))
                 ELSE IF SuffixedStarts(fixed, {"m", "M"}) # {}
                 THEN Some(TimesPow10(SuffixedValue(fixed, {"m", "M"}), 6))
                 ELSE IF decimals # <<>> THEN Some(decimals[1])
                 ELSE IF integers # <<>> THEN Some(integers[1])
                 ELSE None

\* extract_pot_value: the last decimal, else the last integer, else 0.0
ExtractPotValue(text) ==
    IF text = <<>> THEN NormDec(0, 0)
    ELSE LET cleaned == ApplyCharacterCorrections(BlankNonMoneyChars(text))
             fixed == FixCommonPotErrors(cleaned)
             decimals == FindAllDecimals(fixed, 1)
             integers == FindAllIntegers(fixed, 1)
         IN IF decimals # <<>> THEN decimals[Len(decimals)]
            ELSE IF integers # <<>> THEN integers[Len(integers)]
            ELSE NormDec(0, 0)

\* All texts of 1..n characters over an alphabet.
RECURSIVE TextsUpTo(_, _)
TextsUpTo(alphabet, n) ==
    IF n = 0 THEN {}
    ELSE LET shorter == TextsUpTo(alphabet, n - 1) IN
         {<<c>> : c \in alphabet} \cup shorter
         \cup {Append(t, c) : t \in shorter, c \in alphabet}

\* An amount as a poker client prints it: digits, or digits, a separator
\* and digits.
IsAmount(t) ==
    LET seps == {i \in 1..Len(t) : t[i] \in DecimalSeparators} IN
    /\ \A i \in 1..Len(t) : IsDigit(t[i]) \/ i \in seps
    /\ Cardinality(seps) <= 1
    /\ \A i \in seps : 1 < i /\ i < Len(t)

PotAmounts == {t \in TextsUpTo({"0", "7", "8", ",", "."}, MaxAmountLen) : IsAmount(t)}

\* The label in front of the amount, with the blank that separates them.
PotLabels ==
    {<<>>,
     <<"P", "o", "t", " ">>,
     <<"P", "o", "t", " ", "t", "o", "t", "a", "l", " ">>,
     <<"S", "i", "d", "e", " ", "p", "o", "t", ":", " ">>,
     <<"T", "O", "T", "A", "L", " ">>}

CallExtractPotValue ==
    /\ Library
    /\ \E label \in PotLabels, amount \in PotAmounts :
         /\ fn_name' = "extract_pot_value"
         /\ fn_in' = [label |-> label, amount |-> amount]
         /\ fn_out' = ExtractPotValue(label \o amount)

\* OCR texts of a stack or bet zone: digits, letters the OCR confuses with
\* digits, a separator and a multiplier.
MoneyTexts == TextsUpTo({"0", "1", "5", "O", "l", "S", ".", "k"}, MaxAmountLen)

CallNormalizeMoneyValue ==
    /\ Library
    /\ \E text \in MoneyTexts :
         /\ fn_name' = "_normalize_money_value"
         /\ fn_in' = text
         /\ fn_out' = NormalizeMoneyValue(text)

\* ---- region resolution ----

\* Normalised coordinates are counted in eighths, which binary floating
\* point holds exactly: every product below is exact and int() is the floor.
Eighths == 0..8
RoiConfigs ==
    [x : Eighths, y : {0, 4}, w : Eighths, h : {0, 4, 8}]

\* (frame_w, frame_h) of the captured frame
FrameSizes == {<<4, 4>>, <<20, 12>>}

\* anchors.table_zone as (x, y, w, h) in eighths; the default is the frame
TableZones == {[x |-> 0, y |-> 0, w |-> 8, h |-> 8],
               [x |-> 2, y |-> 0, w |-> 4, h |-> 8]}

Rect(x0, y0, x1, y1) == [x0 |-> x0, y0 |-> y0, x1 |-> x1, y1 |-> y1]

\* int(x * frame_w), ..., int((y + h) * frame_h)
ClientPixels(r, frame_w, frame_h) ==
    Rect((r.x * frame_w) \div 8, (r.y * frame_h) \div 8,
         ((r.x + r.w) * frame_w) \div 8, ((r.y + r.h) * frame_h) \div 8)

\* int((ax + x * aw) * frame_w), ..., int((ay + (y + h) * ah) * frame_h)
TableZonePixels(r, tz, frame_w, frame_h) ==
    Rect(((8 * tz.x + r.x * tz.w) * frame_w) \div 64,
         ((8 * tz.y + r.y * tz.h) * frame_h) \div 64,
         ((8 * tz.x + (r.x + r.w) * tz.w) * frame_w) \div 64,
         ((8 * tz.y + (r.y + r.h) * tz.h) * frame_h) \div 64)

\* iter_roi_pixels for one ROI, no client_size in the profile (ref = frame,
\* sx = sy = 1): the rectangle it yields
IterRoiPixels(r, base, tz, frame_w, frame_h) ==
    LET p == IF base = "table_zone" THEN TableZonePixels(r, tz, frame_w, frame_h)
             ELSE ClientPixels(r, frame_w, frame_h)
    IN Some(Rect(Max2(0, p.x0), Max2(0, p.y0), Max2(1, p.x1), Max2(1, p.y1)))

\* frame[a:b] of an axis of n pixels: the pixels the slice covers
SliceRange(a, b, n) == <<Min2(a, n), Min2(b, n)>>

\* _extract_card_rois for one card ROI: the rectangle of the frame that the
\* crop holds, None when the ROI is dropped
ExtractCardRoi(r, base, tz, frame_w, frame_h) ==
    LET p == IF base = "client" THEN ClientPixels(r, frame_w, frame_h)
             ELSE TableZonePixels(r, tz, frame_w, frame_h)
        xs == SliceRange(Max2(0, p.x0), Max2(0, p.x1), frame_w)
        ys == SliceRange(Max2(0, p.y0), Max2(0, p.y1), frame_h)
        size == Max2(0, xs[2] - xs[1]) * Max2(0, ys[2] - ys[1])
    IN IF size > 0 /\ p.y1 > p.y0 /\ p.x1 > p.x0
       THEN Some(Rect(xs[1], ys[1], xs[2], ys[2]))
       ELSE None

\* get_text_zone_rects for one text ROI: its entry of `rects`, None if absent
GetTextZoneRect(r, base, frame_w, frame_h) ==
    IF base # "client" THEN None
    ELSE LET p == ClientPixels(r, frame_w, frame_h) IN
         IF p.x1 > p.x0 /\ p.y1 > p.y0 THEN Some(p) ELSE None

RoiInput(r, base, tz, size) ==
    [roi |-> r, base |-> base, table_zone |-> tz,
     frame_w |-> size[1], frame_h |-> size[2]]

CallIterRoiPixels ==
    /\ Library
    /\ \E r \in RoiConfigs, base \in {"client", "table_zone"}, tz \in TableZones,
          size \in FrameSizes :
         /\ fn_name' = "iter_roi_pixels"
         /\ fn_in' = RoiInput(r, base, tz, size)
         /\ fn_out' = IterRoiPixels(r, base, tz, size[1], size[2])

CallExtractCardRois ==
    /\ Library
    /\ \E r \in RoiConfigs, base \in {"client", "table"}, tz \in TableZones,
          size \in FrameSizes :
         /\ fn_name' = "_extract_card_rois"
         /\ fn_in' = RoiInput(r, base, tz, size)
         /\ fn_out' = ExtractCardRoi(r, base, tz, size[1], size[2])

CallGetTextZoneRects ==
    /\ Library
    /\ \E r \in RoiConfigs, base \in {"client", "table"}, tz \in TableZones,
          size \in FrameSizes :
         /\ fn_name' = "get_text_zone_rects"
         /\ fn_in' = RoiInput(r, base, tz, size)
         /\ fn_out' = GetTextZoneRect(r, base, size[1], size[2])

\* ---- ocr/parsers.py ----

\* text.replace(",", ".")
CommasToPoints(text) == [i \in 1..Len(text) |-> IF text[i] = "," THEN "." ELSE text[i]]

\* str.lower() on the letters that matter to `"k" in normalized.lower()`
HasLetterK(text) == \E i \in 1..Len(text) : text[i] \in {"k", "K"}

\* _parse_money: _MONEY_PATTERN.search takes the leftmost number, with its
\* fraction when one follows; the amount is multiplied by 1000 when the
\* text holds a k anywhere.
ParseMoney(text) ==
    IF text = <<>> THEN None
    ELSE LET normalized == CommasToPoints(text)
             starts == {i \in 1..Len(normalized) : IsDigit(normalized[i])}
         IN IF starts = {} THEN None
            ELSE LET i == CHOOSE a \in starts : \A b \in starts : a <= b
                     j == DigitRunEnd(normalized, i)
                     k == DecimalEndAt(normalized, i)
                     amount == IF k > 0 THEN DecimalValue(normalized, i, k)
                               ELSE FloatOf(SubSeq(normalized, i, j), <<>>)
                 IN IF HasLetterK(normalized) THEN Some(TimesPow10(amount, 3))
                    ELSE Some(amount)

\* Labels and unit words that stand around an amount on the table.
MoneyLabels ==
    {<<>>,
     <<"P", "o", "t", ":", " ">>,
     <<"T", "o", " ", "c", "a", "l", "l", " ">>,
     <<"S", "t", "a", "c", "k", " ">>}
MoneyUnits == {<<>>, <<" ", "B", "B">>, <<" ", "b", "b">>}

CallParseMoney ==
    /\ Library
    /\ \E label \in MoneyLabels, amount \in PotAmounts, unit \in MoneyUnits :
         /\ fn_name' = "_parse_money"
         /\ fn_in' = [label |-> label, amount |-> amount, unit |-> unit]
         /\ fn_out' = ParseMoney(label \o amount \o unit)

\* PolicyResponse: the two pydantic schemas of the repository.  A payload is
\* the dict given to model_validate; confidence is in thousandths, size_bb
\* is None or a number of big blinds; reason_short is a short string in
\* every payload and is left out.
ProviderActions == {"fold", "call", "raise"}
ActionValues == {"fold", "call", "raise", "check", "bet", "all_in"}
PayloadActions == ActionValues \cup {"shove"}
PayloadSizes == {None, Some(3)}
PayloadConfidences == {-100, 0, 770, 1000, 1500}
PolicyPayloads ==
    [action : PayloadActions, size_bb : PayloadSizes,
     confidence : PayloadConfidences]

\* strategy/providers/base.py: action is a Literal, the other fields are
\* only typed.
ProviderPolicyResponse(payload) ==
    IF payload.action \in ProviderActions THEN Some(payload) ELSE None

\* state/model.py: validate_size_bb, run on the size_bb of the payload.
ValidateSizeBb(action, v) ==
    /\ ~(action \in {"raise", "bet"} /\ v = None)
    /\ ~(action = "fold" /\ v # None)

\* state/model.py: action is an Action, confidence has ge=0.0 and le=1.0.
StatePolicyResponse(payload) ==
    IF /\ payload.action \in ActionValues
       /\ ValidateSizeBb(payload.action, payload.size_bb)
       /\ payload.confidence >= 0
       /\ payload.confidence <= 1000
    THEN Some(payload)
    ELSE None

PolicyResponseClasses == {"strategy.providers.base", "state.model"}
AllowedActions(class) ==
    IF class = "state.model" THEN ActionValues ELSE ProviderActions
ModelValidate(class, payload) ==
    IF class = "state.model" THEN StatePolicyResponse(payload)
    ELSE ProviderPolicyResponse(payload)

CallModelValidate ==
    /\ Library
    /\ \E class \in PolicyResponseClasses, payload \in PolicyPayloads :
         /\ fn_name' = "PolicyResponse.model_validate"
         /\ fn_in' = [class |-> class, payload |-> payload]
         /\ fn_out' = ModelValidate(class, payload)

\* strategy/engine.py and strategy/providers/ollama.py.  A policy is a dict;
\* confidences are in thousandths.  What the Ollama server does is an input:
\* the request fails, or the response field holds some text.

PolicyDict(action, confidence, reason) ==
    <<<<"action", action>>, <<"size_bb", "None">>,
      <<"confidence", confidence>>, <<"reason", reason>>>>

\* _fallback_policy; pot odds are to_call / (pot + to_call).
FallbackPolicy(state) ==
    IF IsNone(state.to_call) \/ Val(state.to_call) <= 0
    THEN PolicyDict("call", 500, "No action required")
    ELSE IF ~IsNone(state.pot) /\ Val(state.pot) # 0
    THEN LET to_call == Val(state.to_call)
             total == Val(state.pot) + to_call
         IN IF 10 * to_call < 3 * total
            THEN PolicyDict("call", 700, "Good pot odds")
            ELSE IF 10 * to_call > 5 * total
            THEN PolicyDict("fold", 600, "Poor pot odds")
            ELSE PolicyDict("call", 500, "Marginal pot odds")
    ELSE PolicyDict("fold", 300, "Insufficient information")

\* The answers of the server: kind is what the text of the response is made
\* of, action the value of its "action" key when it holds a JSON object.
LlmActions == {"fold", "call", "raise", "check"}
LlmAnswers ==
    {[kind |-> k, action |-> ""] :
        k \in {"request_failed", "empty", "prose", "broken_json"}}
    \cup {[kind |-> "json", action |-> a] : a \in LlmActions}

\* call_ollama: the response text, "" after a failed request.
CallOllama(answer) ==
    IF answer.kind = "request_failed"
    THEN [kind |-> "empty", action |-> ""]
    ELSE answer

\* _extract_json: the text from the first { to the last }, or "{}".
ExtractJson(txt) ==
    IF txt.kind \in {"json", "broken_json"} THEN txt
    ELSE [kind |-> "json_empty_object", action |-> ""]

\* parse_policy_json: json.loads of the extracted text, {} when it raises.
ParsePolicyJson(txt) ==
    LET json_str == ExtractJson(txt) IN
    IF json_str.kind = "json"
    THEN <<<<"action", json_str.action>>, <<"size_bb", "None">>,
           <<"confidence", 800>>, <<"reason", "short">>>>
    ELSE <<>>

\* query_policy
QueryPolicy(enabled, answer) ==
    IF ~enabled THEN <<>>
    ELSE LET txt == CallOllama(answer) IN
         IF txt.kind = "empty" THEN <<>>
         ELSE ParsePolicyJson(txt)

\* ask_policy: nothing called inside the try raises for these inputs.
AskPolicy(enabled, answer, state) ==
    IF enabled THEN QueryPolicy(enabled, answer)
    ELSE FallbackPolicy(state)

PolicyStates ==
    [to_call : {None, Some(0), Some(25), Some(60), Some(200)},
     pot : {None, Some(0), Some(100)}]

CallAskPolicy ==
    /\ Library
    /\ \E enabled \in BOOLEAN, answer \in LlmAnswers, state \in PolicyStates :
         /\ fn_name' = "ask_policy"
         /\ fn_in' = [enabled |-> enabled, answer |-> answer, state |-> state]
         /\ fn_out' = AskPolicy(enabled, answer, state)

FunctionsNext ==
    \/ CallAggregateFamilyScores
    \/ CallChooseFamilyWithMargin
    \/ CallRecognizeCards
    \/ CallExtractPotValue
    \/ CallNormalizeMoneyValue
    \/ CallIterRoiPixels
    \/ CallExtractCardRois
    \/ CallGetTextZoneRects
    \/ CallParseMoney
    \/ CallModelValidate
    \/ CallAskPolicy
    \/ CallRecognizeCardsWithTemplates

----------------------------------------------------------------------------
\* TableCalibrator: the zone lists, without the coordinates of the zones

MaxOps == 4

CalCards == {"hero_left", "board_card1"}
ZoneTypes == {"rank", "suit"}
CardZone(name, zone_type) == [name |-> name, zone_type |-> zone_type]

\* f"{zone_type}_{n}"
DrawnZoneName(zone_type, n) == <<zone_type, "_", n>>

\* Names the operator types in the dialog of _add_zone.
ManualZoneNames == {<<"top">>, DrawnZoneName("rank", 1)}

\* The GUI opens on the first card with an empty edit list; the profile has
\* no card_zones section yet.
CalInit ==
    /\ cal_card_zones = [c \in CalCards |-> <<>>]
    /\ cal_keys = {}
    /\ cal_zones = <<>>
    /\ cal_current_card = "hero_left"
    /\ cal_zone_type = "rank"
    /\ cal_saved = [c \in CalCards |-> {}]
    /\ cal_ops = 0

Calibrator ==
    /\ program = "table_calibrator"
    /\ UNCHANGED <<text_vars, card_vars, program, bus_vars, hp_vars, hud_vars,
                   ri_vars, fn_vars, tk_vars>>

CalOp ==
    /\ Calibrator
    /\ cal_ops < MaxOps
    /\ cal_ops' = cal_ops + 1

\* the card combobox: _select_card
SelectCard(c) ==
    /\ Calibrator
    /\ cal_current_card' = c
    /\ cal_zones' = cal_card_zones[c]
    /\ UNCHANGED <<cal_card_zones, cal_keys, cal_zone_type, cal_saved, cal_ops>>

\* the zone type combobox
SelectZoneType(t) ==
    /\ Calibrator
    /\ cal_zone_type' = t
    /\ UNCHANGED <<cal_card_zones, cal_keys, cal_zones, cal_current_card,
                   cal_saved, cal_ops>>

HasZoneOfType(zones, t) == \E i \in 1..Len(zones) : zones[i].zone_type = t

\* _create_or_update_zone: the new list of the card
CreateOrUpdateZone(zones, zone_type) ==
    IF HasZoneOfType(zones, zone_type) THEN zones        \* coordinates updated
    ELSE IF Len(zones) >= 2 THEN zones                   \* "Limite atteinte"
    ELSE Append(zones, CardZone(DrawnZoneName(zone_type, Len(zones) + 1),
                                zone_type))

\* _on_canvas_release over card c: a rectangle was drawn on that card
DrawZone(c) ==
    /\ CalOp
    /\ LET zones == cal_card_zones[c]
           refused == ~HasZoneOfType(zones, cal_zone_type) /\ Len(zones) >= 2
       IN /\ cal_card_zones' =
                [cal_card_zones EXCEPT ![c] = CreateOrUpdateZone(zones, cal_zone_type)]
          /\ cal_zones' = IF refused THEN cal_zones ELSE cal_card_zones'[c]
    /\ cal_keys' = cal_keys \cup {c}
    /\ UNCHANGED <<cal_current_card, cal_zone_type, cal_saved>>

\* _add_zone with a name and four coordinates typed in
AddZone(name) ==
    /\ CalOp
    /\ cal_zones' = Append(cal_zones, CardZone(name, cal_zone_type))
    /\ UNCHANGED <<cal_card_zones, cal_keys, cal_current_card, cal_zone_type,
                   cal_saved>>

\* _remove_last_zone
RemoveLastZone ==
    /\ CalOp
    /\ cal_zones' = IF cal_zones = <<>> THEN cal_zones
                    ELSE SubSeq(cal_zones, 1, Len(cal_zones) - 1)
    /\ UNCHANGED <<cal_card_zones, cal_keys, cal_current_card, cal_zone_type,
                   cal_saved>>

\* _save_current_card: the new self.card_zones
SavedCurrentCard == [cal_card_zones EXCEPT ![cal_current_card] = cal_zones]

SaveCurrentCard ==
    /\ CalOp
    /\ cal_card_zones' = SavedCurrentCard
    /\ cal_keys' = cal_keys \cup {cal_current_card}
    /\ UNCHANGED <<cal_zones, cal_current_card, cal_zone_type, cal_saved>>

\* config['card_zones'][card][zone.name] = {...} for each zone of the list
RECURSIVE MergeZones(_, _)
MergeZones(section, zones) ==
    IF zones = <<>> THEN section
    ELSE MergeZones({z \in section : z.name # Head(zones).name} \cup {Head(zones)},
                    Tail(zones))

\* _save_config: the card_zones section written to the YAML file
SaveConfig(saved, card_zones) ==
    [c \in CalCards |-> MergeZones(saved[c], card_zones[c])]

\* _save_all
SaveAll ==
    /\ CalOp
    /\ cal_card_zones' = SavedCurrentCard
    /\ cal_keys' = cal_keys \cup {cal_current_card}
    /\ cal_saved' = SaveConfig(cal_saved, cal_card_zones')
    /\ UNCHANGED <<cal_zones, cal_current_card, cal_zone_type>>

\* _clear_all_zones, confirmed; with no key in self.card_zones it only
\* reports that there is nothing to clear.
ClearAllZones ==
    /\ CalOp
    /\ IF cal_keys = {}
       THEN UNCHANGED <<cal_card_zones, cal_keys, cal_zones>>
       ELSE /\ cal_card_zones' = [c \in CalCards |-> <<>>]
            /\ cal_keys' = {}
            /\ cal_zones' = <<>>
    /\ UNCHANGED <<cal_current_card, cal_zone_type, cal_saved>>

SelectAnyCard == \E c \in CalCards : SelectCard(c)
SelectAnyZoneType == \E t \in ZoneTypes : SelectZoneType(t)
DrawAnyZone == \E c \in CalCards : DrawZone(c)
AddAnyZone == \E name \in ManualZoneNames : AddZone(name)

CalibratorNext ==
    \/ SelectAnyCard
    \/ SelectAnyZoneType
    \/ DrawAnyZone
    \/ AddAnyZone
    \/ RemoveLastZone
    \/ SaveCurrentCard
    \/ SaveAll
    \/ ClearAllZones

----------------------------------------------------------------------------
\* The poll timers of the two HUD windows: ui/overlay.py PokerHUD and
\* launch_overlay.py PokerHUD.  What the provider answers to one poll is an
\* input of the callback; Tk's after queue is the number of pending calls.

MaxPolls == 4

HudClasses == {"ui.overlay", "launch_overlay"}
PollSnapshots == {"none", "no_state", "state"}
PollTimestamps == {None, Some(1), Some(2)}

TkInit ==
    /\ tk_hud = "none"
    /\ tk_after = 0
    /\ tk_closed = FALSE
    /\ tk_path = "none"
    /\ tk_last_seen_ts = Some(0)
    /\ tk_polls = 0

HudWindow ==
    /\ program = "hud"
    /\ UNCHANGED <<text_vars, card_vars, program, bus_vars, hp_vars, hud_vars,
                   ri_vars, fn_vars, cal_vars>>

\* launch_overlay.py PokerHUD._poll_provider: the path one execution takes.
LaunchPollPath(ready, snap, raises) ==
    IF ~ready THEN "not_ready"
    ELSE IF snap = "none" THEN "no_snapshot"
    ELSE IF snap = "no_state" THEN "no_state"
    ELSE IF raises THEN "exception"
    ELSE "rendered"

\* launch_overlay.py: the root.after calls of one execution: the one before
\* each early return, and the one of the finally clause.
LaunchScheduled(path) ==
    (IF path \in {"not_ready", "no_snapshot", "no_state"} THEN 1 ELSE 0) + 1

\* ui/overlay.py PokerHUD._poll_provider: the path one execution takes; st
\* is the state of the snapshot, or get_state() when there is no snapshot.
OverlayPollPath(ready, snap, has_state, snap_ts, last_seen_ts, raises) ==
    IF ~ready THEN "not_ready"
    ELSE IF snap = "no_state" THEN "no_state"
    ELSE IF snap = "none" /\ ~has_state THEN "no_snapshot"
    ELSE IF snap_ts # None /\ snap_ts = last_seen_ts THEN "skipped"
    ELSE IF raises THEN "exception"
    ELSE "rendered"

\* ui/overlay.py: the finally clause is the only place that schedules.
OverlayScheduled(path) == 1

\* main() of launch_overlay.py builds one of the two HUDs.  The constructor
\* of launch_overlay.PokerHUD ends with root.after(250, _poll_provider); the
\* one of ui.overlay.PokerHUD calls _poll_provider, whose finally clause
\* schedules the next call.
BuildHud ==
    /\ HudWindow
    /\ tk_hud = "none"
    /\ \E class \in HudClasses :
         /\ tk_hud' = class
         /\ tk_path' = IF class = "ui.overlay" THEN "not_ready" ELSE "none"
    /\ tk_after' = 1
    /\ UNCHANGED <<tk_closed, tk_last_seen_ts, tk_polls>>

LaunchPollProvider ==
    /\ HudWindow
    /\ tk_hud = "launch_overlay" /\ ~tk_closed
    /\ tk_after > 0 /\ tk_polls < MaxPolls
    /\ \E ready \in BOOLEAN, snap \in PollSnapshots, raises \in BOOLEAN :
         LET path == LaunchPollPath(ready, snap, raises) IN
         /\ tk_path' = path
         /\ tk_after' = tk_after - 1 + LaunchScheduled(path)
    /\ tk_polls' = tk_polls + 1
    /\ UNCHANGED <<tk_hud, tk_closed, tk_last_seen_ts>>

OverlayPollProvider ==
    /\ HudWindow
    /\ tk_hud = "ui.overlay" /\ ~tk_closed
    /\ tk_after > 0 /\ tk_polls < MaxPolls
    /\ \E ready \in BOOLEAN, snap \in PollSnapshots, has_state \in BOOLEAN,
          snap_ts \in PollTimestamps, raises \in BOOLEAN :
         LET path == OverlayPollPath(ready, snap, has_state, snap_ts,
                                     tk_last_seen_ts, raises) IN
         /\ tk_path' = path
         /\ tk_after' = tk_after - 1 + OverlayScheduled(path)
         /\ tk_last_seen_ts' =
              IF path \in {"exception", "rendered"} /\ snap_ts # None
              THEN snap_ts ELSE tk_last_seen_ts
    /\ tk_polls' = tk_polls + 1
    /\ UNCHANGED <<tk_hud, tk_closed>>

\* Escape or WM_DELETE_WINDOW: destroy() takes the pending calls with it.
CloseWindow ==
    /\ HudWindow
    /\ tk_hud # "none" /\ ~tk_closed
    /\ tk_closed' = TRUE
    /\ tk_after' = 0
    /\ UNCHANGED <<tk_hud, tk_path, tk_last_seen_ts, tk_polls>>

HudNext ==
    \/ BuildHud
    \/ LaunchPollProvider
    \/ OverlayPollProvider
    \/ CloseWindow

----------------------------------------------------------------------------
\* Specifications: one per component, the others staying as constructed.

ThreadsInitial ==
    BusInit /\ HpInit /\ HudInit /\ RiInit /\ FnInit /\ CalInit /\ TkInit

\* A program that only uses the recognisers as a library: no provider and no
\* integration run, their variables keep one initial value.
ThreadsUnused == ThreadsInitial /\ ~hp_use_real /\ ~ri_init_ok

TextInit ==
    TextInitFor(TextLayout) /\ CardInit /\ program = "library" /\ ThreadsUnused
CardsInit ==
    TextInitFor(CardLayout) /\ CardInit /\ program = "library" /\ ThreadsUnused
ThreadsInit ==
    /\ TextInitFor(<<>>) /\ ocr_installed /\ CardInit
    /\ program \in {"launch_overlay", "launch_live_preview"}
    /\ ThreadsInitial

SpecText == TextInit /\ [][TextNext]_vars
SpecCards == CardsInit /\ [][CardNext]_vars
SpecThreads == ThreadsInit /\ [][ThreadsNext]_vars

\* launch_overlay alone: the provider's worker and the HUD's poll.
OverlayInit == ThreadsInit /\ program = "launch_overlay" /\ ~ri_init_ok
SpecOverlay == OverlayInit /\ [][OverlayNext]_vars

\* The helpers called one at a time on a constructed, idle pipeline.
FunctionsInit ==
    /\ TextInitFor(<<>>) /\ ocr_installed /\ CardInit
    /\ program = "library" /\ ThreadsUnused
SpecFunctions == FunctionsInit /\ [][FunctionsNext]_vars

\* launch_table_calibrator: the operator edits the zones of the profile.
CalibratorInit ==
    /\ TextInitFor(<<>>) /\ ocr_installed /\ CardInit
    /\ program = "table_calibrator" /\ ThreadsUnused
SpecCalibrator == CalibratorInit /\ [][CalibratorNext]_vars

\* A HUD window and its poll timer.
HudWindowInit ==
    /\ TextInitFor(<<>>) /\ ocr_installed /\ CardInit
    /\ program = "hud" /\ ThreadsUnused
SpecHud == HudWindowInit /\ [][HudNext]_vars

\* A stop was requested on the RecognitionIntegration (is_running is False
\* again although a worker was created).
StopRequested == ri_thread # 0 /\ ~ri_running

\* start_recognition, as long as no stop was requested before it.
U_StartBeforeStop == ~StopRequested /\ U_Start

StopNext ==
    \/ OverlayNext
    \/ U_StartBeforeStop \/ U_Stop \/ U_JoinReturns \/ U_ProcessFrame
    \/ U_StaleReadFrame \/ U_StaleReadTime
    \/ \E t \in Threads : WorkerStep(t)

\* The runs in which no start follows a stop.  Threads that can take a step
\* do take it: a running Python thread is scheduled again (the interpreter
\* hands over the GIL every few milliseconds).  The HUD holds the bus lock for
\* two reads and polls only every 50 ms, so a worker waiting for the lock
\* gets it.
HpWorkerStep ==
    \/ W_Start \/ W_LoopCheck \/ W_Recognize \/ W_PubSnap \/ W_PubTs
    \/ W_PubUnlock \/ W_Policy

SpecStop ==
    /\ ThreadsInit
    /\ [][StopNext]_vars
    /\ WF_vars(HpWorkerStep)
    /\ SF_vars(W_PubLock)
    /\ WF_vars(HudGet)
    /\ WF_vars(\E t \in Threads : WorkerStep(t))

----------------------------------------------------------------------------
\* Properties of the text recogniser (checked under SpecText).

ConfiguredZones == {text_zones[i] : i \in 1..Len(text_zones)}
NumericZones == {z \in ConfiguredZones : ~IsNameZone(z)}

\* The step is a recognize_text call that ran the zone loop.
TextCycle == text_calls' = text_calls + 1 /\ text_out'.raised = "none"

\* Zone z of the frame handed in by the step carries a kept detection whose
\* text normalises to a number.
ReadsNumber(z) ==
    /\ text_in'[z].kind = "read"
    /\ text_in'[z].conf > MinConfidencePct
    /\ ~IsNone(NormalizeZone(z, text_in'[z]))

ReadValue(z) == Val(NormalizeZone(z, text_in'[z]))

\* C7 (as stated): with a non-zero previous filtered value p, a read n more
\* than 30% away from p is rejected: the TextResult of that cycle does not
\* carry n.
C7_JumpRejected ==
    [][\A z \in NumericZones :
         (/\ TextCycle
          /\ ReadsNumber(z)
          /\ ~IsNone(ema_values[z])
          /\ Val(ema_values[z]) # 0
          /\ MaxValueChangeDen * Abs(ReadValue(z) - Val(ema_values[z]))
                > MaxValueChangeNum * Abs(Val(ema_values[z])))
         => text_out'.results[z].normalized_value # Some(ReadValue(z))]_vars

\* C8 (as stated): whatever the filter state p of a zone, a cycle that reads
\* v reports a value whose distance to v is at most (1 - alpha) times the
\* distance of p to v, so that repeating v converges geometrically.
C8_EmaContracts ==
    [][\A z \in NumericZones :
         (/\ TextCycle
          /\ ReadsNumber(z)
          /\ ~IsNone(ema_values[z]))
         => EmaAlphaDen
              * Abs(Val(text_out'.results[z].normalized_value) - ReadValue(z))
            <= (EmaAlphaDen - EmaAlphaNum)
              * Abs(Val(ema_values[z]) - ReadValue(z))]_vars

\* C9 (as stated): on a constructed recogniser no recognize_text call raises
\* because the OCR engine is missing.
C9_NoRaiseAfterConstruction == text_out.raised = "none"

\* C10: a zone that raises gets the empty invalid result, every other
\* configured zone still gets its own result, and the failing zone's EMA and
\* stable value are what they were before the call.
C10_ZoneFailureIsolated ==
    [][TextCycle =>
         /\ DOMAIN text_out'.results = ConfiguredZones
         /\ \A z \in ConfiguredZones :
              /\ text_in'[z].kind = "raise" =>
                   /\ text_out'.results[z] = EmptyTextResult
                   /\ ema_values'[z] = ema_values[z]
                   /\ stable_values'[z] = stable_values[z]
              /\ (text_in'[z].kind = "read"
                  /\ text_in'[z].conf > MinConfidencePct) =>
                   /\ text_out'.results[z].text = text_in'[z].text
                   /\ text_out'.results[z].confidence = text_in'[z].conf
         /\ (\A z \in ConfiguredZones : text_in'[z].kind = "raise") =>
              /\ ema_values' = ema_values
              /\ stable_values' = stable_values]_vars

\* A call in which a zone with temporal state raised and another zone got a
\* valid result.
C10_Witness ==
    /\ text_calls > 0
    /\ text_out.raised = "none"
    /\ \E z, y \in ConfiguredZones :
         /\ text_in[z].kind = "raise"
         /\ text_out.results[z] = EmptyTextResult
         /\ ~IsNone(ema_values[z])
         /\ y # z
         /\ text_out.results[y].is_valid

----------------------------------------------------------------------------
\* Properties of the card recogniser (checked under SpecCards).

\* C1: after every recognition cycle the street is decided by the previous
\* street and the number n of populated board slots: 0 preflop, 3 flop,
\* 4 turn, 5 river, and 1 or 2 leave it as it was.
C1_StreetFromCount ==
    [][card_calls' = card_calls + 1 =>
         LET n == Cardinality({i \in 1..5 :
                      /\ ~IsNone(cards_in'.board[i].rank)
                      /\ ~IsNone(cards_in'.board[i].suit)})
         IN /\ n = 0 => game_state' = "preflop"
            /\ n = 3 => game_state' = "flop"
            /\ n = 4 => game_state' = "turn"
            /\ n = 5 => game_state' = "river"
            /\ n \in {1, 2} => game_state' = game_state]_vars

\* A river frame directly followed by a frame with no visible board card,
\* whose street is preflop.
C1_Witness ==
    \E k \in 1..(Len(frames) - 1) :
        /\ frames[k].game_state = "river"
        /\ VisibleCards(frames[k + 1].board_cards) = 0
        /\ frames[k + 1].game_state = "preflop"

----------------------------------------------------------------------------
\* Properties of the threads (checked under SpecThreads and SpecStop).

\* C2: SnapshotBus.get returns (None, 0) while no publish has completed, and
\* otherwise the packet and the timestamp of the most recently completed
\* publish.
C2_GetReturnsLatestPublish ==
    [][(hud_pc = "get" /\ hud_pc' = "idle") =>
         hud_got' = IF pub_log = <<>> THEN <<None, 0>>
                    ELSE pub_log[Len(pub_log)]]_vars

\* A get that returned the latest of several publishes, its packet differing
\* from the first one's.
C2_Witness ==
    /\ hud_pc = "idle"
    /\ Len(pub_log) >= 2
    /\ hud_got = pub_log[Len(pub_log)]
    /\ hud_got[1] # pub_log[1][1]

\* C3 (as stated): while the worker is in a cycle whose capture failed, the
\* provider's last state and the content of the mailbox stay what they were.
C3_NoPublishOnCaptureFailure ==
    [][w_img' = "None" =>
         (bus_snap' = bus_snap /\ hp_last_state' = hp_last_state)]_vars

\* The simulated hand of cycle number counter (_get_simulated_state).
IsSimulatedHand(st, counter) ==
    /\ ~IsNone(st)
    /\ Val(st).source = "simulated"
    /\ Val(st).pot = Some(100 + (counter % 50) * 10)
    /\ Val(st).street = IF counter % 20 < 10 THEN "flop" ELSE "turn"

\* C3 (amended): a cycle whose capture failed publishes no recognised state:
\* its state is the simulated hand of the cycle's counter, which becomes the
\* provider's last state and is what both publishes of the cycle put in the
\* mailbox.
C3_CaptureFailureFallsBack ==
    [][/\ (w_pc = "recognize" /\ w_img' = "None") =>
            /\ IsSimulatedHand(hp_last_state', sim_counter)
            /\ Val(w_snap').state = hp_last_state'
       /\ (w_pc = "pub_snap" /\ w_img = "None" /\ w_pc' = "pub_ts") =>
            IsSimulatedHand(Val(bus_snap').state, sim_counter)]_vars

\* The second cycle's capture failed after a first cycle that published a
\* recognised state: the mailbox now holds the simulated hand.
C3_Witness ==
    /\ hp_use_real
    /\ w_img = "None"
    /\ w_pc = "pub_unlock"
    /\ \E k \in 1..Len(pub_log) :
         Val(Val(pub_log[k][1]).state).source = "recognized"
    /\ Val(Val(bus_snap).state).source = "simulated"

\* C4 (as stated): at most one worker thread runs the recognition loop.
C4_SingleWorker == Cardinality({t \in Threads : Alive(t)}) <= 1

\* C5: once a stop is requested and no start follows, the worker enters no
\* further cycle (the HybridProvider worker no further recognition, the
\* RecognitionIntegration worker no further queue wait), and it ends.
C5_StopEndsWorker ==
    /\ [][/\ hp_stop => ~(w_pc # "recognize" /\ w_pc' = "recognize")
          /\ StopRequested =>
                \A t \in Threads : ~(ri_wpc[t] = "loop" /\ ri_wpc'[t] = "get")
         ]_vars
    /\ (hp_stop ~> (w_pc = "done"))
    /\ (StopRequested ~> (\A t \in Threads : ~Alive(t)))

\* The HybridProvider worker has ended after a stop that reached it in the
\* middle of a cycle, with that cycle's two publishes completed.
C5_Witness ==
    /\ hp_stop
    /\ w_pc = "done"
    /\ sim_counter = 1
    /\ Len(pub_log) = 2

\* C6 (as stated): the frame and the update time a staleness check has read
\* were written by one and the same worker update.
C6_PairFromOneUpdate ==
    (ui_pc = "idle" /\ ~IsNone(ui_seen)) => Val(ui_seen) \in ri_update_log

----------------------------------------------------------------------------
\* C11 (as stated): a TextResult is valid only if its mean confidence is
\* above the floor, the OCR text of its zone held a parsable name or number
\* (the reading normalised to a value), and a numeric value lies in
\* [0, 1,000,000).
C11_ValidOnlyIfNormalized ==
    \A z \in DOMAIN text_out.results :
        LET res == text_out.results[z] IN
        res.is_valid =>
            /\ res.confidence > MinConfidencePct
            /\ ~IsNone(text_in[z].value)
            /\ ~IsNone(res.normalized_value)
            /\ (~IsNameZone(z) =>
                   /\ Val(res.normalized_value) >= 0
                   /\ Val(res.normalized_value) \div Scale < MaxReasonableValue)

----------------------------------------------------------------------------
\* The slots of the frame a recognize_cards call returned.
ReturnedSlots ==
    {fn_out.hero_cards[i] : i \in 1..2} \cup {fn_out.board_cards[i] : i \in 1..5}

\* C12: in a frame returned by recognize_cards, a slot whose combined
\* confidence is under 0.3, or whose rank or suit did not pass its gate (its
\* label is None, as for a slot skipped for blank or missing zones), is
\* uncertain; a slot that is not uncertain has rank and suit set and a
\* combined confidence of at least 0.3.
C12_UncertainWhenGateFails ==
    fn_name = "recognize_cards" =>
        /\ \A c \in ReturnedSlots :
              (c.combined_confidence < ConfidenceThreshold
                  \/ IsNone(c.rank) \/ IsNone(c.suit)) => c.is_uncertain
        /\ Len(fn_out.hero_cards) = 2 /\ Len(fn_out.board_cards) = 5

\* A slot whose rank passed, whose suit failed and whose confidence is high.
C12_Witness ==
    /\ fn_name = "recognize_cards"
    /\ \E c \in ReturnedSlots :
          /\ ~IsNone(c.rank) /\ IsNone(c.suit)
          /\ c.combined_confidence >= ConfidenceThreshold
          /\ c.is_uncertain

MaxOf(S) == CHOOSE x \in S : \A y \in S : y <= x

\* The highest family score, and the highest among the other families.
TopScore(fam) == MaxOf({fam[i][2] : i \in 1..Len(fam)})
RunnerUpScore(fam) ==
    LET top == CHOOSE i \in 1..Len(fam) : fam[i][2] = TopScore(fam) IN
    MaxOf({fam[i][2] : i \in (1..Len(fam)) \ {top}})

ChooserPicksTop ==
    /\ fn_in = <<>> => fn_out = [label |-> None, top1 |-> 0, margin |-> 0]
    /\ Len(fn_in) >= 1 =>
          /\ fn_out.top1 = TopScore(fn_in)
          /\ \E i \in 1..Len(fn_in) :
                fn_in[i] = <<Val(fn_out.label), fn_out.top1>>
    /\ Len(fn_in) >= 2 =>
          fn_out.margin = TopScore(fn_in) - RunnerUpScore(fn_in)

\* C13 (as stated): the chooser returns the margin top1 - top2 with two or
\* more families, the margin 0 with exactly one family, and (None, 0, 0) for
\* an empty map.
C13_SingleFamilyZeroMargin ==
    fn_name = "_choose_family_with_margin" =>
        /\ ChooserPicksTop
        /\ Len(fn_in) = 1 => fn_out.margin = 0

\* C13 (amended): the chooser returns the margin top1 - top2 with two or
\* more families, the family's own score as margin with exactly one family
\* (an absent runner-up counts as 0), and (None, 0, 0) for an empty map.
C13_SingleFamilyFullMargin ==
    fn_name = "_choose_family_with_margin" =>
        /\ ChooserPicksTop
        /\ Len(fn_in) = 1 => fn_out.margin = fn_in[1][2]

\* One family with a positive score went through the chooser.
C13_Witness ==
    /\ fn_name = "_choose_family_with_margin"
    /\ Len(fn_in) = 1
    /\ fn_out.top1 > 0
    /\ fn_out.margin = fn_out.top1

\* The card the call was about, and what the chooser saw for it.
ProcessedSlot ==
    IF IsBoardCard(fn_in.card_name)
    THEN fn_out.board_cards[SlotIndex(fn_in.card_name)]
    ELSE fn_out.hero_cards[SlotIndex(fn_in.card_name)]
ChosenRank == ChooseFamilyWithMargin(AggregateFamilyScores(fn_in.rank_scores))
ChosenSuit == ChooseFamilyWithMargin(AggregateFamilyScores(fn_in.suit_scores))

\* C14 (as stated): with the nominal settings a hero label passes exactly
\* when top1 >= 0.15 and margin >= 0.02, a board label exactly when
\* top1 >= 0.12 and margin >= 0.01, the same for rank and suit; a label that
\* fails is reported as None.
C14_NominalThresholds ==
    (fn_name = "recognize_cards" /\ fn_in.zones = "ok") =>
        LET board == IsBoardCard(fn_in.card_name)
            min_score == IF board THEN 120 ELSE 150
            min_margin == IF board THEN 10 ELSE 20
        IN /\ ~IsNone(ProcessedSlot.rank) <=>
                 (ChosenRank.top1 >= min_score /\ ChosenRank.margin >= min_margin)
           /\ ~IsNone(ProcessedSlot.suit) <=>
                 (ChosenSuit.top1 >= min_score /\ ChosenSuit.margin >= min_margin)

\* C15 (as stated): the aggregate has exactly one entry per family (the
\* label up to its first underscore), whose value is the maximum of the
\* scores of that family's variants.
C15_FamilyMaximum ==
    fn_name = "_aggregate_family_scores" =>
        LET families == {FirstField(fn_in[j][1]) : j \in 1..Len(fn_in)} IN
        /\ DictKeys(fn_out) = families
        /\ Len(fn_out) = Cardinality(families)
        /\ \A i \in 1..Len(fn_out) :
              fn_out[i][2] =
                  MaxOf({fn_in[j][2] : j \in {k \in 1..Len(fn_in) :
                                     FirstField(fn_in[k][1]) = fn_out[i][1]}})

\* The number an amount string denotes.
AmountValue(a) ==
    LET seps == {i \in 1..Len(a) : a[i] \in DecimalSeparators} IN
    IF seps = {} THEN FloatOf(a, <<>>)
    ELSE LET i == CHOOSE k \in seps : TRUE IN
         FloatOf(SubSeq(a, 1, i - 1), SubSeq(a, i + 1, Len(a)))

\* C16 (as stated): whatever label stands in front of an amount string
\* ('Pot', 'Pot total', 'Side pot:', 'TOTAL' or none), extract_pot_value
\* returns the same value, the number the amount string holds.
C16_LabelAgnostic ==
    fn_name = "extract_pot_value" => fn_out = AmountValue(fn_in.amount)

ConfusableText(text) ==
    /\ \A i \in 1..Len(text) : IsDigit(text[i]) \/ text[i] \in {"O", "l", "S"}
    /\ \E i \in 1..Len(text) : ~IsDigit(text[i])

\* C17 (as stated): _normalize_money_value corrects confused characters
\* before it parses the number: a text of digits and of letters read for
\* digits gives the number of the corrected text ('1O5' gives 105).
C17_CorrectionsBeforeParsing ==
    (fn_name = "_normalize_money_value" /\ ConfusableText(fn_in)) =>
        fn_out = Some(FloatOf(ApplyCharacterCorrections(fn_in), <<>>))

\* C18 (as stated): a pixel rectangle yielded or cropped for a configured
\* ROI (w > 0, h > 0) lies within the frame and has x1 > x0 and y1 > y0.
C18_RectWithinFrame ==
    (fn_name \in {"iter_roi_pixels", "_extract_card_rois", "get_text_zone_rects"}
     /\ fn_in.roi.w > 0 /\ fn_in.roi.h > 0
     /\ ~IsNone(fn_out)) =>
        LET p == Val(fn_out) IN
        /\ 0 <= p.x0 /\ p.x1 <= fn_in.frame_w
        /\ 0 <= p.y0 /\ p.y1 <= fn_in.frame_h
        /\ p.x1 > p.x0 /\ p.y1 > p.y0

ZonesOfType(zones, t) == {i \in 1..Len(zones) : zones[i].zone_type = t}

\* C19 (as stated): after any sequence of calibrator operations every card
\* has at most one rank zone and at most one suit zone, in self.card_zones
\* and in the saved card_zones section.
C19_OneZonePerType ==
    \A c \in CalCards, t \in ZoneTypes :
        /\ Cardinality(ZonesOfType(cal_card_zones[c], t)) <= 1
        /\ Cardinality({z \in cal_saved[c] : z.zone_type = t}) <= 1

\* What a consumer holding the k-th returned frame reads now.
FrameRead(k) ==
    [hero_cards |-> heap[frame_refs[k].hero_cards],
     board_cards |-> heap[frame_refs[k].board_cards],
     game_state |-> frame_refs[k].game_state,
     text_results |-> heap[frame_refs[k].text_results]]

FrameObjects(k) ==
    {frame_refs[k].hero_cards, frame_refs[k].board_cards,
     frame_refs[k].text_results}

\* C20: every recognize_cards call returns a newly built RecognitionFrame
\* with 2 hero and 5 board CardResults, and later cycles leave the frames
\* returned earlier as they were: the holder of frame k still reads the
\* cards, street and text results it was returned.
C20_FramesKeptAsReturned ==
    /\ Len(frame_refs) = Len(frames)
    /\ \A k \in 1..Len(frames) :
          /\ FrameRead(k) = frames[k]
          /\ Len(FrameRead(k).hero_cards) = 2
          /\ Len(FrameRead(k).board_cards) = 5
          /\ \A j \in 1..Len(frames) :
                j # k => FrameObjects(j) \cap FrameObjects(k) = {}

\* Two frames were returned and the later cycle saw other cards.
C20_Witness ==
    /\ Len(frames) = 2
    /\ frames[1].board_cards # frames[2].board_cards
    /\ frames[1].game_state # frames[2].game_state

\* C21 (as stated): parsing an amount from OCR text returns the number
\* written in the text, ',' and '.' alike as decimal separator, whatever
\* label or unit words stand around it.
C21_AmountWhateverTheLabel ==
    fn_name = "_parse_money" => fn_out = Some(AmountValue(fn_in.amount))

\* C22 (as stated): every payload accepted by PolicyResponse validation
\* yields an object whose action is one of the allowed actions and whose
\* confidence lies in [0, 1] (a call may have a null size_bb), so a payload
\* whose confidence lies outside [0, 1] is rejected.  The schema of
\* strategy/providers/base.py accepts a confidence of 1.5.
C22_AcceptedPayloadInRange ==
    (fn_name = "PolicyResponse.model_validate" /\ fn_out # None) =>
        /\ fn_out[1].action \in AllowedActions(fn_in.class)
        /\ fn_out[1].confidence >= 0
        /\ fn_out[1].confidence <= 1000

\* C23 (as stated): in both HUDs every execution of _poll_provider schedules
\* exactly one next poll, so an open window has exactly one poll pending.
\* launch_overlay.PokerHUD schedules two on each of its early returns.
C23_OnePollPending ==
    (tk_hud # "none" /\ ~tk_closed) => tk_after = 1

\* C24 (as stated): every snapshot the HUD reads from the bus pairs a hand
\* state with the policy computed for that same state, or with an empty
\* policy.  The first publish of a cycle pairs the new state with the policy
\* cached by the cycle before.
C24_PolicyOfTheSameState ==
    ~IsNone(hud_got[1]) =>
        LET snap == Val(hud_got[1]) IN
        \/ snap.policy = EmptyPolicy
        \/ snap.policy.computed_for = snap.state

\* _try_real_recognition, line 286: the board handed to _build_state holds
\* rank + suit of the board cards of the frame that have both.
RecognizedBoard(frame) ==
    LET RECURSIVE From(_)
        From(i) ==
            IF i > Len(frame.board_cards) THEN <<>>
            ELSE (IF Populated(frame.board_cards[i])
                  THEN <<CardString(frame.board_cards[i])>> ELSE <<>>)
                 \o From(i + 1)
    IN From(1)

\* C25 (as stated): the street of the HandState built from a recognised
\* frame (infer_street of its board) equals the game_state of that frame,
\* also when 1 or 2 board cards are visible.  With 1 or 2 cards infer_street
\* answers flop while the recogniser keeps its previous street.
C25_SameStreetInStateAndFrame ==
    \A i \in 1..Len(frames) :
        BuildState(RecognizedBoard(frames[i])).street = frames[i].game_state

\* C26 (as stated): the frame the RecognitionIntegration worker takes from
\* the queue is the most recently submitted one, and the frames it discards
\* afterwards are no newer than the one it publishes.  The queue is first in
\* first out: the worker takes the oldest waiting frame, and the emptying
\* loop then throws away the newer ones.
C26_WorkerTakesNewestFrame ==
    [][\A t \in Threads :
         /\ (ri_wpc[t] = "get" /\ ri_wpc'[t] = "recognize") =>
                ri_wframe'[t] = ri_submitted
         /\ (ri_wpc[t] = "drain" /\ ri_queue' # ri_queue) =>
                Head(ri_queue) <= ri_wframe[t]]_vars

Published(n) == \E e \in ri_update_log : e[1] = n
RaisedOn(n) == \E r \in ri_raise_log : r[1] = n
SubmittedAfterRaise(n) ==
    n <= ri_submitted /\ \E r \in ri_raise_log : r[2] < n

\* C27 (as stated): when recognize_cards raises in the worker, the worker
\* goes on with its loop and last_recognition and last_update_time keep
\* their values; a frame submitted after that, while recognition is running,
\* is eventually processed and published (unless recognising it raises as
\* well, or recognition is stopped).  The first two hold; a frame submitted
\* after the raise can be thrown away by the emptying loop of a later cycle.
C27_WorkerSurvivesRaise ==
    /\ [][\A t \in Threads :
            (ri_wpc[t] = "recognize" /\ ri_wpc'[t] \notin {"recognize", "set_rec"}) =>
                /\ ri_wpc'[t] = "loop"
                /\ ri_last_recognition' = ri_last_recognition
                /\ ri_last_update_time' = ri_last_update_time]_vars
    /\ \A n \in 1..MaxFrames :
         SubmittedAfterRaise(n) ~>
             (Published(n) \/ RaisedOn(n) \/ ~ri_running)

\* C28 (as stated): ask_policy always returns a policy whose action is fold,
\* call or raise, and returns the rule-based fallback when the LLM is
\* disabled, unreachable, or answers nothing that parses.  With the LLM
\* enabled an unreachable server gives the empty dict.
NoLlmPolicy(enabled, answer) ==
    ~enabled \/ answer.kind # "json"
C28_PolicyOrFallback ==
    fn_name = "ask_policy" =>
        /\ DictGet(fn_out, "action", "") \in {"fold", "call", "raise"}
        /\ NoLlmPolicy(fn_in.enabled, fn_in.answer) =>
               fn_out = FallbackPolicy(fn_in.state)

PokerRanks ==
    {<<c>> : c \in {"A", "K", "Q", "J", "T", "9", "8", "7", "6", "5", "4",
                    "3", "2"}}
PokerSuits == {<<c>> : c \in {"h", "d", "c", "s"}}

\* C29 (as stated): in every frame returned by recognize_cards, each card
\* has a rank in A K Q J T 9..2 or None and a suit in h d c s or None,
\* whatever the template files are called, so the string of a recognised
\* card has two characters.  A template exported by the live preview gives
\* the rank "rank"; 10.png of rename_templates gives "10".
C29_StandardCardSymbols ==
    fn_name = "recognize_cards" =>
        \A c \in ReturnedSlots :
            /\ IsNone(c.rank) \/ Val(c.rank) \in PokerRanks
            /\ IsNone(c.suit) \/ Val(c.suit) \in PokerSuits
            /\ Populated(c) => Len(Val(c.rank) \o Val(c.suit)) = 2

\* The card_zones section a list of zones gives when written on its own:
\* one entry per zone name.
SectionOf(zones) == MergeZones({}, zones)

\* C30 (as stated): after 'Save All', whatever selections, draws, removals
\* and clear-all came before, the card_zones section of the YAML holds for
\* each card the zones of that card as last edited, so a zone that was
\* removed or cleared is not in the file.  _save_config only adds and
\* overwrites entries: a zone saved once stays in the file.
C30_SavedSectionIsEditedZones ==
    [][SaveAll => \A c \in CalCards :
                      cal_saved'[c] = SectionOf(cal_card_zones'[c])]_vars

====
